---- MODULE Spec2Model ----
(***************************************************************************)
(* GeoCrypt backend: the authenticated-encryption service                  *)
(* (crypto_service.py), the access-policy evaluator (geofence.py), the     *)
(* anomaly detector (ml_service.py) and the request handlers of server.py  *)
(* that tie them to the collections of the database.                       *)
(*                                                                         *)
(* Byte strings are sequences of 0..255, text strings are sequences of     *)
(* character codes, so slicing, concatenation, lower() and the             *)
(* lexicographic order of Python strings are computed, not assumed.        *)
(***************************************************************************)
EXTENDS Integers, Sequences, FiniteSets, TLC

VARIABLES
    \* ---- crypto_service.py: one encrypt / store / decrypt experiment ----
    file_data,          \* plaintext handed to encrypt_file
    key,                \* key returned by generate_key
    encrypted_data,     \* the blob at rest (NoBlob before encrypt_file)
    blob_state,         \* "none" | "fresh" | "tampered" | "truncated"
    tamper_at,          \* 0-based offset of the byte that had a bit flipped, or -1
    decrypt_key,        \* key handed to decrypt_file
    decrypt_result,     \* outcome of the decrypt_file call (NoCall before)
    stored_key,            \* the key text read from the stored metadata
    key_result,         \* outcome of the string_to_key call (NoCall before)
    \* ---- geofence.py: one call of validate_access ----
    request,            \* the request dict
    config,             \* the config dict, or None
    wfh_approved,       \* the override flag
    clock,              \* <<hour, minute>> datetime.now() returns during the call
    validation_result,  \* outcome of the validate_access call (NoCall before)
    \* ---- ml_service.py: one AnomalyDetector and the calls made on it ----
    anomaly_detector,   \* [is_trained, model]: the detector object
    ml_call,            \* the last call on the detector: [op, activities, result]
    ml_prev,            \* the call before it: [op, n, result], without the lists
    \* ---- server.py: the collections of the database and the last response ----
    started,            \* the startup event (create_admin) has run
    geofence_config,    \* db.geofence_config: the one record, or None
    wfh_requests,       \* db.wfh_requests, in insertion order
    file_metadata,      \* db.file_metadata, in insertion order
    fs_files,           \* the GridFS bucket: [_id, filename, content] records
    access_logs,        \* db.access_logs, in insertion order
    response,           \* the last handler call: who called what, and the answer
    inflight            \* an access_file call between two of its awaits

cryptoVars ==
    <<file_data, key, encrypted_data, blob_state, tamper_at,
      decrypt_key, decrypt_result, stored_key, key_result>>

policyVars == <<request, config, wfh_approved, clock, validation_result>>

mlVars == <<anomaly_detector, ml_call, ml_prev>>

serverVars ==
    <<started, geofence_config, wfh_requests, file_metadata, fs_files, access_logs,
      response, inflight>>

vars == <<cryptoVars, policyVars, mlVars, serverVars>>

(***************************************************************************)
(* Generic helpers                                                         *)
(***************************************************************************)
NoCall == [kind |-> "none"]
NoBlob == <<>>

Min(a, b) == IF a < b THEN a ELSE b
Max(a, b) == IF a > b THEN a ELSE b

\* Python slice s[lo:hi] with 0-based, end-exclusive, clamped indices.
Slice(s, lo, hi) == SubSeq(s, Min(lo, Len(s)) + 1, Min(hi, Len(s)))
\* Python slice s[lo:]
SliceFrom(s, lo) == SubSeq(s, Min(lo, Len(s)) + 1, Len(s))

RECURSIVE Pow2(_)
Pow2(n) == IF n = 0 THEN 1 ELSE 2 * Pow2(n - 1)

Bit(x, i) == (x \div Pow2(i)) % 2

RECURSIVE XorFrom(_, _, _)
XorFrom(a, b, i) ==
    IF i = 8 THEN 0
    ELSE ((Bit(a, i) + Bit(b, i)) % 2) * Pow2(i) + XorFrom(a, b, i + 1)

\* bitwise exclusive or of two bytes
Xor8(a, b) == XorFrom(a, b, 0)

(***************************************************************************)
(* AES-256-GCM as used through PyCryptodome                                *)
(*                                                                         *)
(* The cipher is a library; what the service relies on is modelled:        *)
(*  - AES.new(key, MODE_GCM) without a nonce draws a random nonce of       *)
(*    GcmDefaultNonceLen bytes; with nonce=b"" it raises ValueError;       *)
(*  - encrypt_and_digest is a counter-mode stream (byte-wise xor with a    *)
(*    keystream determined by key and nonce) and a tag of GcmTagLen bytes  *)
(*    that is a keyed polynomial hash of the ciphertext masked by a value  *)
(*    derived from key and nonce (GHASH over a prime field here);          *)
(*  - decrypt_and_verify recomputes the tag and raises                     *)
(*    ValueError("MAC check failed") unless the received tag is            *)
(*    byte-for-byte the computed one.                                      *)
(***************************************************************************)
GcmDefaultNonceLen == 16
GcmTagLen == 16
KeyLen == 32
MacPrime == 32749

\* init * base^n + bytes[1] * base^(n-1) + ... + bytes[n]   (mod MacPrime)
Horner(bytes, base, init) ==
    LET h[i \in 0..Len(bytes)] ==
            IF i = 0 THEN init % MacPrime
            ELSE (h[i - 1] * base + bytes[i]) % MacPrime
    IN  h[Len(bytes)]

\* hash subkey H = E_K(0^128): a non-zero field element determined by the key
HashSubkey(k) == 1 + (Horner(k, 263, 1) % (MacPrime - 1))
\* second key-derived point, used for the nonce -> pre-counter block J0
CounterSubkey(k) == 1 + (Horner(k, 521, 7) % (MacPrime - 1))

\* J0: derived from the nonce (any length >= 1) under the key
PreCounter(k, nonce) == Horner(nonce, CounterSubkey(k), Len(nonce) + 1)

\* the keystream byte at position i, from J0 and the hash subkey
Keystream(j0, h, i) == (j0 * 31 + h * 17 + i * 101) % 256

\* counter mode: the same operation encrypts and decrypts
CtrXor(k, nonce, data) ==
    LET j0 == PreCounter(k, nonce)
        h == HashSubkey(k)
    IN  [i \in 1..Len(data) |-> Xor8(data[i], Keystream(j0, h, i))]

GHash(h, ciphertext) ==
    Horner(ciphertext \o <<Len(ciphertext) + 1>>, h, 0)

MacValue(j0, h, ciphertext) == (GHash(h, ciphertext) * h + j0) % MacPrime

\* the GcmTagLen bytes of the tag
GcmTag(k, nonce, ciphertext) ==
    LET j0 == PreCounter(k, nonce)
        h == HashSubkey(k)
        t == MacValue(j0, h, ciphertext)
    IN  [i \in 1..GcmTagLen |->
            IF i = 1 THEN t % 256
            ELSE IF i = 2 THEN t \div 256
            ELSE (j0 * i + h + i * i) % 256]

(***************************************************************************)
(* crypto_service.py                                                       *)
(***************************************************************************)
\* bounds of the explored inputs
MaxPlainLen == 2
NumKeys == 2
NumNonces == 2

PlainBytes == {65, 255}

RECURSIVE SeqsUpTo(_, _)
SeqsUpTo(S, n) ==
    IF n = 0 THEN {<<>>}
    ELSE LET shorter == SeqsUpTo(S, n - 1)
         IN  shorter \cup {Append(s, x) : s \in {t \in shorter : Len(t) = n - 1}, x \in S}

Plaintexts == SeqsUpTo(PlainBytes, MaxPlainLen)

\* get_random_bytes(n): the values the generator may return, seed by seed
RandomBytes(n, seed) == [i \in 1..n |-> (seed * 89 + i * 37 + seed * i * 3) % 256]

\* generate_key: 32 random bytes
generate_key == {RandomBytes(KeyLen, s) : s \in 1..NumKeys}

\* the nonce AES.new draws when none is given
FreshNonces == {RandomBytes(GcmDefaultNonceLen, 10 + s) : s \in 1..NumNonces}

\* offsets at which decrypt_file cuts the blob
NonceEnd == 16
TagEnd == 32

\* variant: the tag is written in front of the nonce
encrypt_file_tag_first(data, k, nonce) ==
    LET ciphertext == CtrXor(k, nonce, data)
        tag == GcmTag(k, nonce, ciphertext)
    IN  tag \o nonce \o ciphertext

\* encrypt_file(file_data, key) with the nonce the cipher object drew
encrypt_file(data, k, nonce) ==
    LET ciphertext == CtrXor(k, nonce, data)
        tag == GcmTag(k, nonce, ciphertext)
    IN  nonce \o tag \o ciphertext

\* the three slices decrypt_file takes from the blob
split_blob(blob) ==
    [nonce |-> Slice(blob, 0, NonceEnd),
     tag |-> Slice(blob, NonceEnd, TagEnd),
     ciphertext |-> SliceFrom(blob, TagEnd)]

\* AES.new(key, MODE_GCM, nonce=nonce).decrypt_and_verify(ciphertext, tag)
decrypt_and_verify(k, nonce, ciphertext, tag) ==
    IF Len(nonce) = 0
    THEN [kind |-> "raise", exc |-> "ValueError",
          msg |-> "Nonce cannot be empty", decrypt_attempted |-> FALSE]
    ELSE IF tag /= GcmTag(k, nonce, ciphertext)
    THEN [kind |-> "raise", exc |-> "ValueError",
          msg |-> "MAC check failed", decrypt_attempted |-> TRUE]
    ELSE [kind |-> "return", value |-> CtrXor(k, nonce, ciphertext),
          decrypt_attempted |-> TRUE]

\* variant: the blob is cut for a 12-byte nonce (offsets 12 and 28)
decrypt_file_cut_12_28(blob, k) ==
    decrypt_and_verify(k, Slice(blob, 0, 12), SliceFrom(blob, 28),
                       Slice(blob, 12, 28))

\* variant: cipher.decrypt without the tag verification
decrypt_file_unverified(blob, k) ==
    LET parts == split_blob(blob)
    IN  IF Len(parts.nonce) = 0
        THEN decrypt_and_verify(k, parts.nonce, parts.ciphertext, parts.tag)
        ELSE [kind |-> "return",
              value |-> CtrXor(k, parts.nonce, parts.ciphertext),
              decrypt_attempted |-> TRUE]

\* decrypt_file(encrypted_data, key): the returned plaintext or the exception
decrypt_file(blob, k) ==
    LET parts == split_blob(blob)
    IN  decrypt_and_verify(k, parts.nonce, parts.ciphertext, parts.tag)



(***************************************************************************)
(* Python values                                                           *)
(*                                                                         *)
(* A dict is a function from its keys; dict.get(k, default) is Get.  None  *)
(* is its own value.  A str is the sequence of its character codes.        *)
(***************************************************************************)
None == [py_none |-> TRUE]

Get(d, k, default) == IF k \in DOMAIN d THEN d[k] ELSE default

\* the dict d restricted to the keys in ks (a dict that lacks the others)
Restrict(d, ks) == [k \in ks |-> d[k]]

Digit(d) == 48 + d
Colon == 58

\* s1 < s2 in Python's order of str (code point by code point, a proper
\* prefix first)
StrLess(s1, s2) ==
    \E i \in 1..(Len(s1) + 1) :
        /\ \A j \in 1..(i - 1) : j <= Len(s2) /\ s1[j] = s2[j]
        /\ IF i = Len(s1) + 1 THEN Len(s2) >= i
           ELSE i <= Len(s2) /\ s1[i] < s2[i]

StrLeq(s1, s2) == s1 = s2 \/ StrLess(s1, s2)

\* str.lower() on ASCII text
lower(str) ==
    [i \in 1..Len(str) |-> IF str[i] >= 65 /\ str[i] <= 90 THEN str[i] + 32 ELSE str[i]]

\* now.strftime("%H:%M")
strftime_HM(now) ==
    <<Digit(now[1] \div 10), Digit(now[1] % 10), Colon,
      Digit(now[2] \div 10), Digit(now[2] % 10)>>

\* a formatted message: the f-string's text with the numbers and the strings
\* substituted into it, in order
Msg(text, nums, strs) == [text |-> text, nums |-> nums, strs |-> strs]

(***************************************************************************)
(* geofence.py                                                             *)
(*                                                                         *)
(* Coordinates are in units of 0.0001 degree; distances and radii are in   *)
(* centimetres.  The pairs of points compared lie within a fraction of a   *)
(* degree of (0, 0), or on one meridian a fraction of a degree apart.  For *)
(* such pairs the haversine distance R * c is, to the metre, the planar    *)
(* one: CmPerUnit * sqrt(dlat^2 + dlon^2), with                            *)
(* CmPerUnit = 6371000 m * pi / 180 * 0.0001 = 1111.95 cm.                 *)
(***************************************************************************)
CmPerUnit == 1112

RECURSIVE ISqrtFrom(_, _, _)
\* acc has the bits above k of the root; decide bit k and go on
ISqrtFrom(n, k, acc) ==
    IF k < 0 THEN acc
    ELSE LET hi == acc + Pow2(k)
         IN  ISqrtFrom(n, k - 1, IF hi <= n \div hi THEN hi ELSE acc)

\* floor of the square root
ISqrt(n) == ISqrtFrom(n, 15, 0)

\* calculate_distance(lat1, lon1, lat2, lon2), in centimetres
calculate_distance(lat1, lon1, lat2, lon2) ==
    LET delta_lat == lat2 - lat1
        delta_lon == lon2 - lon1
        \* the length in hundredths of a unit, then in centimetres
    IN  (ISqrt((delta_lat * delta_lat + delta_lon * delta_lon) * 10000) * CmPerUnit)
            \div 100

\* variant: the fence is open (distance < radius)
validate_location_strict(employee_lat, employee_lon, config_lat, config_lon, radius) ==
    LET distance == calculate_distance(employee_lat, employee_lon, config_lat, config_lon)
    IN  IF distance < radius
        THEN <<TRUE, Msg("Location validated (distance: {:.2f}m)", <<distance>>, <<>>)>>
        ELSE <<FALSE, Msg("Outside allowed area (distance: {:.2f}m, max: {}m)",
                          <<distance, radius>>, <<>>)>>

\* validate_location(employee_lat, employee_lon, config_lat, config_lon, radius)
validate_location(employee_lat, employee_lon, config_lat, config_lon, radius) ==
    LET distance == calculate_distance(employee_lat, employee_lon, config_lat, config_lon)
    IN  IF distance <= radius
        THEN <<TRUE, Msg("Location validated (distance: {:.2f}m)", <<distance>>, <<>>)>>
        ELSE <<FALSE, Msg("Outside allowed area (distance: {:.2f}m, max: {}m)",
                          <<distance, radius>>, <<>>)>>

\* variant: an empty claimed name is compared like any other
validate_wifi_no_empty_check(employee_ssid, allowed_ssid) ==
    IF lower(employee_ssid) = lower(allowed_ssid)
    THEN <<TRUE, Msg("WiFi validated ({})", <<>>, <<employee_ssid>>)>>
    ELSE <<FALSE, Msg("Unauthorized WiFi network ({})", <<>>, <<employee_ssid>>)>>

\* validate_wifi(employee_ssid, allowed_ssid)
validate_wifi(employee_ssid, allowed_ssid) ==
    IF employee_ssid = <<>>
    THEN <<FALSE, Msg("WiFi SSID not provided", <<>>, <<>>)>>
    ELSE IF lower(employee_ssid) = lower(allowed_ssid)
    THEN <<TRUE, Msg("WiFi validated ({})", <<>>, <<employee_ssid>>)>>
    ELSE <<FALSE, Msg("Unauthorized WiFi network ({})", <<>>, <<employee_ssid>>)>>

\* variant: the end of the window is excluded
validate_time_end_excluded(start_time, end_time, now) ==
    LET current_time == strftime_HM(now)
    IN  IF StrLeq(start_time, current_time) /\ StrLess(current_time, end_time)
        THEN <<TRUE, Msg("Time validated ({})", <<>>, <<current_time>>)>>
        ELSE <<FALSE, Msg("Outside allowed hours (current: {}, allowed: {}-{})",
                          <<>>, <<current_time, start_time, end_time>>)>>

\* validate_time(start_time, end_time) with the clock reading `now`
validate_time(start_time, end_time, now) ==
    LET current_time == strftime_HM(now)
    IN  IF StrLeq(start_time, current_time) /\ StrLeq(current_time, end_time)
        THEN <<TRUE, Msg("Time validated ({})", <<>>, <<current_time>>)>>
        ELSE <<FALSE, Msg("Outside allowed hours (current: {}, allowed: {}-{})",
                          <<>>, <<current_time, start_time, end_time>>)>>

\* the defaults of the config.get / request.get calls
DefaultLatitude == 0
DefaultLongitude == 0
DefaultRadius == 10000
DefaultStart == <<Digit(0), Digit(9), Colon, Digit(0), Digit(0)>>
DefaultEnd == <<Digit(1), Digit(7), Colon, Digit(0), Digit(0)>>

Bypassed == Msg("bypassed", <<>>, <<>>)

Returned(value, evaluated) ==
    [kind |-> "return", value |-> value, evaluated |-> evaluated]
Raised(exc, evaluated) ==
    [kind |-> "raise", exc |-> exc, evaluated |-> evaluated]

\* the separator of "; ".join
Sep == Msg("; ", <<>>, <<>>)

\* "; ".join(reasons): the messages in the order they were appended, the
\* separator between each two of them; the empty string for no message
Join(reasons) ==
    [i \in 1..(IF Len(reasons) = 0 THEN 0 ELSE 2 * Len(reasons) - 1) |->
        IF i % 2 = 1 THEN reasons[(i + 1) \div 2] ELSE Sep]

\* variant: the message of every signal is appended to the reasons
evaluate_signals_reports_all(req, cfg, now) ==
    LET loc == validate_location(Get(req, "latitude", DefaultLatitude),
                                 Get(req, "longitude", DefaultLongitude),
                                 Get(cfg, "latitude", DefaultLatitude),
                                 Get(cfg, "longitude", DefaultLongitude),
                                 Get(cfg, "radius", DefaultRadius))
        wifi == validate_wifi(Get(req, "wifi_ssid", <<>>),
                              Get(cfg, "allowed_ssid", <<>>))
        time == validate_time(Get(cfg, "start_time", DefaultStart),
                              Get(cfg, "end_time", DefaultEnd), now)
        reasons == <<loc[2], wifi[2], time[2]>>
        allowed == loc[1] /\ wifi[1] /\ time[1]
    IN  Returned([allowed |-> allowed,
                  reason |-> IF allowed THEN <<Msg("Access granted", <<>>, <<>>)>>
                             ELSE Join(reasons),
                  validations |-> [location |-> loc[2], wifi |-> wifi[2],
                                   time |-> time[2]]],
                 {"location", "wifi", "time"})

\* variant: a signal is evaluated only while the ones before it are valid;
\* the signals not reached are left out of the validations
evaluate_signals_stops_at_failure(req, cfg, now) ==
    LET loc == validate_location(Get(req, "latitude", DefaultLatitude),
                                 Get(req, "longitude", DefaultLongitude),
                                 Get(cfg, "latitude", DefaultLatitude),
                                 Get(cfg, "longitude", DefaultLongitude),
                                 Get(cfg, "radius", DefaultRadius))
        wifi == validate_wifi(Get(req, "wifi_ssid", <<>>),
                              Get(cfg, "allowed_ssid", <<>>))
        time == validate_time(Get(cfg, "start_time", DefaultStart),
                              Get(cfg, "end_time", DefaultEnd), now)
    IN  IF ~loc[1]
        THEN Returned([allowed |-> FALSE, reason |-> Join(<<loc[2]>>),
                       validations |-> [location |-> loc[2]]], {"location"})
        ELSE IF ~wifi[1]
        THEN Returned([allowed |-> FALSE, reason |-> Join(<<wifi[2]>>),
                       validations |-> [location |-> loc[2], wifi |-> wifi[2]]],
                      {"location", "wifi"})
        ELSE Returned([allowed |-> time[1],
                       reason |-> IF time[1] THEN <<Msg("Access granted", <<>>, <<>>)>>
                                  ELSE Join(<<time[2]>>),
                       validations |-> [location |-> loc[2], wifi |-> wifi[2],
                                        time |-> time[2]]],
                      {"location", "wifi", "time"})

\* the non-override part of validate_access (lines 91-130), on a config dict
evaluate_signals(req, cfg, now) ==
    LET loc == validate_location(Get(req, "latitude", DefaultLatitude),
                                 Get(req, "longitude", DefaultLongitude),
                                 Get(cfg, "latitude", DefaultLatitude),
                                 Get(cfg, "longitude", DefaultLongitude),
                                 Get(cfg, "radius", DefaultRadius))
        wifi == validate_wifi(Get(req, "wifi_ssid", <<>>),
                              Get(cfg, "allowed_ssid", <<>>))
        time == validate_time(Get(cfg, "start_time", DefaultStart),
                              Get(cfg, "end_time", DefaultEnd), now)
        reasons == (IF loc[1] THEN <<>> ELSE <<loc[2]>>)
                   \o (IF wifi[1] THEN <<>> ELSE <<wifi[2]>>)
                   \o (IF time[1] THEN <<>> ELSE <<time[2]>>)
        allowed == loc[1] /\ wifi[1] /\ time[1]
    IN  Returned([allowed |-> allowed,
                  reason |-> IF allowed THEN <<Msg("Access granted", <<>>, <<>>)>>
                             ELSE Join(reasons),
                  validations |-> [location |-> loc[2], wifi |-> wifi[2],
                                   time |-> time[2]]],
                 {"location", "wifi", "time"})

\* variant: the override is one more vote, granted only inside the window
validate_access_override_votes(req, cfg, wfh, now) ==
    IF cfg = None THEN Raised("AttributeError", {})
    ELSE LET r == evaluate_signals(req, cfg, now)
         IN  IF wfh /\ r.value.validations.time.text = "Time validated ({})"
             THEN Returned([allowed |-> TRUE,
                            reason |-> <<Msg("Work from home approved", <<>>, <<>>)>>,
                            validations |-> [location |-> Bypassed, wifi |-> Bypassed,
                                             time |-> Bypassed]], r.evaluated)
             ELSE r

\* variant: two valid signals out of three are enough
validate_access_any_two(req, cfg, wfh, now) ==
    IF wfh
    THEN Returned([allowed |-> TRUE,
                   reason |-> <<Msg("Work from home approved", <<>>, <<>>)>>,
                   validations |-> [location |-> Bypassed, wifi |-> Bypassed,
                                    time |-> Bypassed]], {})
    ELSE IF cfg = None THEN Raised("AttributeError", {})
    ELSE LET r == evaluate_signals(req, cfg, now)
         IN  [r EXCEPT !.value.allowed = Len(r.value.reason) <= 1]

\* validate_access(request, config, wfh_approved), the clock reading `now`
validate_access(req, cfg, wfh, now) ==
    IF wfh
    THEN Returned([allowed |-> TRUE,
                   reason |-> <<Msg("Work from home approved", <<>>, <<>>)>>,
                   validations |-> [location |-> Bypassed, wifi |-> Bypassed,
                                    time |-> Bypassed]], {})
    ELSE IF cfg = None
    \* config.get on None: AttributeError while the arguments of the first
    \* validate_location call are evaluated
    THEN Raised("AttributeError", {})
    ELSE evaluate_signals(req, cfg, now)

\* ---- the inputs explored ----
Str_Of == <<79, 102>>
Str_of == <<111, 102>>
Str_OF == <<79, 70>>
Str_Gu == <<71, 117>>
HM(h, m) == strftime_HM(<<h, m>>)

FullRequests ==
    [latitude : {0, 1, 9, 30}, longitude : {0, 12}, wifi_ssid : {<<>>, Str_Of, Str_of, Str_Gu}]

\* requests, also with fields missing
Requests ==
    FullRequests
    \cup {Restrict(r, {"wifi_ssid"}) : r \in FullRequests}
    \cup {Restrict(r, {"latitude", "longitude"}) : r \in FullRequests}

OfficeConfig ==
    [latitude |-> 0, longitude |-> 0, radius |-> 10000, allowed_ssid |-> Str_Of,
     start_time |-> HM(9, 0), end_time |-> HM(17, 0)]
NightConfig ==
    [latitude |-> 1, longitude |-> 0, radius |-> CmPerUnit, allowed_ssid |-> Str_OF,
     start_time |-> HM(22, 0), end_time |-> HM(6, 0)]
OpenConfig ==
    [latitude |-> 30, longitude |-> 12, radius |-> 50000, allowed_ssid |-> <<>>,
     start_time |-> HM(0, 0), end_time |-> HM(23, 59)]

\* configurations: full records, records with fields missing, no record
Configs ==
    {OfficeConfig, NightConfig, OpenConfig, None,
     Restrict(OfficeConfig, {}),
     Restrict(OfficeConfig, {"allowed_ssid"}),
     Restrict(NightConfig, {"latitude", "longitude", "radius"}),
     Restrict(OpenConfig, {"allowed_ssid", "start_time", "end_time"})}

Clocks == {<<8, 59>>, <<9, 0>>, <<10, 30>>, <<17, 0>>, <<17, 1>>, <<23, 30>>}

(***************************************************************************)
(* ml_service.py                                                           *)
(*                                                                         *)
(* A timestamp is a str (in ISO format or not) or a datetime object; both  *)
(* carry the hour and the weekday the features are made of.  What the      *)
(* fitted IsolationForest predicts for a feature vector is left open: the  *)
(* caller supplies the vector model.predict returns (1 normal, -1 anomaly).*)
(***************************************************************************)
Return(value) == [kind |-> "return", value |-> value]
Raise(exc) == [kind |-> "raise", exc |-> exc]

IsoString(h, wd) == [type |-> "str", iso |-> TRUE, hour |-> h, weekday |-> wd]
BadString == [type |-> "str", iso |-> FALSE]
DateTime(h, wd) == [type |-> "datetime", hour |-> h, weekday |-> wd]

\* datetime.fromisoformat(timestamp.replace('Z', '+00:00'))
fromisoformat(timestamp) ==
    IF timestamp.iso THEN Return(DateTime(timestamp.hour, timestamp.weekday))
    ELSE Raise("ValueError")

\* the body of the loop of extract_features for one activity
feature_of(activity) ==
    LET timestamp == Get(activity, "timestamp", None)
        parsed == IF timestamp /= None /\ timestamp.type = "str"
                  THEN fromisoformat(timestamp)
                  ELSE Return(timestamp)
    IN  IF parsed.kind = "raise" THEN parsed
        ELSE IF parsed.value = None THEN Raise("AttributeError")
        ELSE Return(<<parsed.value.hour, parsed.value.weekday, 1>>)

\* extract_features(activities): the feature rows, or the first exception
extract_features(activities) ==
    LET rows == [i \in 1..Len(activities) |-> feature_of(activities[i])]
        failed == {i \in 1..Len(activities) : rows[i].kind = "raise"}
    IN  IF failed = {} THEN Return([i \in 1..Len(activities) |-> rows[i].value])
        ELSE rows[CHOOSE i \in failed : \A j \in failed : i <= j]

\* the least number of feature rows train accepts
MinSamples == 10

NoModel == [fitted |-> FALSE]
NewDetector == [model |-> NoModel, is_trained |-> FALSE]

\* variant: the gate lets 9 rows through
train_gate_9(self, activities) ==
    LET features == extract_features(activities)
    IN  IF features.kind = "raise" THEN [self |-> self, result |-> features]
        ELSE IF Len(features.value) < 9
        THEN [self |-> self, result |-> Return(FALSE)]
        ELSE [self |-> [model |-> [fitted |-> TRUE, data |-> features.value],
                        is_trained |-> TRUE],
              result |-> Return(TRUE)]

\* variant: the flag is set before the gate
train_flag_first(self, activities) ==
    LET features == extract_features(activities)
    IN  IF features.kind = "raise" THEN [self |-> self, result |-> features]
        ELSE IF Len(features.value) < MinSamples
        THEN [self |-> [self EXCEPT !.is_trained = TRUE], result |-> Return(FALSE)]
        ELSE [self |-> [model |-> [fitted |-> TRUE, data |-> features.value],
                        is_trained |-> TRUE],
              result |-> Return(TRUE)]

\* train(self, activities): the detector afterwards and what the call returns
train(self, activities) ==
    LET features == extract_features(activities)
    IN  IF features.kind = "raise" THEN [self |-> self, result |-> features]
        ELSE IF Len(features.value) < MinSamples
        THEN [self |-> self, result |-> Return(FALSE)]
        ELSE [self |-> [model |-> [fitted |-> TRUE, data |-> features.value],
                        is_trained |-> TRUE],
              result |-> Return(TRUE)]

\* variant: an untrained detector flags everything
detect_anomalies_untrained_flags(self, activities, predictions) ==
    IF ~self.is_trained
    THEN Return([i \in 1..Len(activities) |-> TRUE])
    ELSE LET features == extract_features(activities)
         IN  IF features.kind = "raise" THEN features
             ELSE IF Len(features.value) = 0 THEN Return(<<>>)
             ELSE Return([i \in 1..Len(predictions) |-> predictions[i] = -1])

\* detect_anomalies(self, activities), model.predict returning `predictions`
detect_anomalies(self, activities, predictions) ==
    IF ~self.is_trained
    THEN Return([i \in 1..Len(activities) |-> FALSE])
    ELSE LET features == extract_features(activities)
         IN  IF features.kind = "raise" THEN features
             ELSE IF Len(features.value) = 0 THEN Return(<<>>)
             ELSE Return([i \in 1..Len(predictions) |-> predictions[i] = -1])

\* the activities an analysis flags, in order (the zip of line 111)
Flagged(activities, anomalies) ==
    SelectSeq([i \in 1..Len(activities) |-> [act |-> activities[i], flag |-> anomalies[i]]],
              LAMBDA p : p.flag)

\* the off_hours test of lines 115-117 on one activity
IsOffHours(act) ==
    LET timestamp == Get(act, "timestamp", None)
    IN  /\ timestamp /= None
        /\ timestamp.type = "datetime"
        /\ (timestamp.hour < 9 \/ timestamp.hour > 17)

\* lines 109-120: the patterns reported for the flagged activities
patterns_of(activities, anomalies) ==
    LET suspicious == Flagged(activities, anomalies)
        off_hours == SelectSeq(suspicious, LAMBDA p : IsOffHours(p.act))
    IN  IF Len(suspicious) = 0 THEN <<>>
        ELSE <<Msg("Detected {} unusual access patterns", <<Len(suspicious)>>, <<>>)>>
             \o (IF Len(off_hours) = 0 THEN <<>>
                 ELSE <<Msg("Off-hours access detected: {} instances",
                            <<Len(off_hours)>>, <<>>)>>)

\* variant: the thresholds are inclusive (>= 0.3, >= 0.15)
analysis_of_inclusive(activities, anomalies) ==
    LET suspicious_count == Len(Flagged(activities, anomalies))
        total == Len(activities)
    IN  [total_activities |-> total,
         suspicious_count |-> suspicious_count,
         risk_level |-> IF 10 * suspicious_count >= 3 * total THEN "high"
                        ELSE IF 100 * suspicious_count >= 15 * total THEN "medium"
                        ELSE "low",
         patterns |-> patterns_of(activities, anomalies)]

\* the analysis returned for the flags of detect_anomalies.  The quotient
\* suspicious_count / len(activities) is the double nearest to the fraction,
\* as 0.3 and 0.15 are the doubles nearest to 3/10 and 15/100, and a
\* fraction of at most 1000 entries that differs from a threshold differs
\* from it by far more than a rounding error: the comparisons are those of
\* the fractions
analysis_of(activities, anomalies) ==
    LET suspicious_count == Len(Flagged(activities, anomalies))
        total == Len(activities)
    IN  [total_activities |-> total,
         suspicious_count |-> suspicious_count,
         risk_level |-> IF 10 * suspicious_count > 3 * total THEN "high"
                        ELSE IF 100 * suspicious_count > 15 * total THEN "medium"
                        ELSE "low",
         patterns |-> patterns_of(activities, anomalies)]


\* analyze_employee_behavior(self, activities), model.predict returning
\* `predictions`: the analysis, or the exception of detect_anomalies
analyze_employee_behavior(self, activities, predictions) ==
    IF Len(activities) = 0
    THEN Return([total_activities |-> 0, suspicious_count |-> 0,
                 risk_level |-> "low", patterns |-> <<>>])
    ELSE LET anomalies == detect_anomalies(self, activities, predictions)
         IN  IF anomalies.kind = "raise" THEN anomalies
             ELSE Return(analysis_of(activities, anomalies.value))

\* ---- the inputs explored ----
\* the longest activity list
MaxActivities == 11

ListLengths == {0, MinSamples - 1, MinSamples, MaxActivities}

\* access-log entries as access_file writes them: ISO strings, office hours
OfficeLog(n) == [i \in 1..n |-> [timestamp |-> IsoString(9 + (i % 8), i % 5)]]
\* entries whose timestamp is a datetime object, every other one at night
MixedLog(n) ==
    [i \in 1..n |-> [timestamp |-> DateTime(IF i % 2 = 0 THEN 22 ELSE 10, i % 7)]]
\* ISO strings, all at the same hour of the same weekday
FlatLog(n) == [i \in 1..n |-> [timestamp |-> IsoString(3, 6)]]

ActivityLists ==
    {OfficeLog(n) : n \in ListLengths} \cup {MixedLog(n) : n \in ListLengths}
        \cup {FlatLog(n) : n \in ListLengths}

\* a log one entry of which has a timestamp that is no ISO string
BrokenLog(n) ==
    [i \in 1..n |-> [timestamp |-> IF i = 2 THEN BadString
                                    ELSE IsoString(9 + (i % 8), i % 5)]]

\* the lists analysed: also twice the least training size
AnalysisLengths == ListLengths \cup {2 * MinSamples}
AnalysedLists ==
    {OfficeLog(n) : n \in AnalysisLengths} \cup {MixedLog(n) : n \in AnalysisLengths}
        \cup {BrokenLog(n) : n \in AnalysisLengths \ {0}}
        \cup {FlatLog(MinSamples)}

\* the detectors a first call of train leaves behind
Detectors ==
    {NewDetector} \cup {train(NewDetector, a).self : a \in ActivityLists}

\* what model.predict may return for n rows: the first k or the last k rows
\* are anomalies, for every k
Predictions(n) ==
    {[i \in 1..n |-> IF i <= k THEN -1 ELSE 1] : k \in 0..n}
        \cup {[i \in 1..n |-> IF i > n - k THEN -1 ELSE 1] : k \in 0..n}

(***************************************************************************)
(* base64 (key_to_string / string_to_key)                                  *)
(***************************************************************************)
\* the character of a 6-bit value
B64Char(v) ==
    IF v < 26 THEN 65 + v
    ELSE IF v < 52 THEN 97 + (v - 26)
    ELSE IF v < 62 THEN 48 + (v - 52)
    ELSE IF v = 62 THEN 43 ELSE 47

B64Pad == 61

IsB64Char(c) ==
    \/ (c >= 65 /\ c <= 90) \/ (c >= 97 /\ c <= 122) \/ (c >= 48 /\ c <= 57)
    \/ c = 43 \/ c = 47

\* the 6-bit value of an alphabet character
B64Value(c) ==
    IF c >= 65 /\ c <= 90 THEN c - 65
    ELSE IF c >= 97 /\ c <= 122 THEN c - 97 + 26
    ELSE IF c >= 48 /\ c <= 57 THEN c - 48 + 52
    ELSE IF c = 43 THEN 62 ELSE 63

\* base64.b64encode(data).decode('utf-8')
b64encode(data) ==
    LET n == Len(data)
        groups == (n + 2) \div 3
        byte(i) == IF i <= n THEN data[i] ELSE 0
        word(g) == byte(3 * g - 2) * 65536 + byte(3 * g - 1) * 256 + byte(3 * g)
        char(g, j) ==
            IF 3 * g - 3 + j > n + 1 THEN B64Pad
            ELSE B64Char((word(g) \div Pow2(6 * (4 - j))) % 64)
    IN  [p \in 1..(4 * groups) |-> char((p + 3) \div 4, ((p - 1) % 4) + 1)]

\* binascii.a2b_base64 without strict mode, one character on: characters
\* outside the alphabet are skipped; a "=" ends the input once the group
\* begun has two or three characters and enough "=" signs to complete it,
\* and is skipped otherwise.  data holds the 6-bit values read, pads the "="
\* signs since the last of them
B64Step(st, c) ==
    IF st.done THEN st
    ELSE IF c = B64Pad
    THEN IF Len(st.data) % 4 >= 2 /\ (Len(st.data) % 4) + st.pads + 1 >= 4
         THEN [st EXCEPT !.done = TRUE]
         ELSE IF Len(st.data) % 4 >= 2 THEN [st EXCEPT !.pads = @ + 1] ELSE st
    ELSE IF ~IsB64Char(c) THEN st
    ELSE [st EXCEPT !.data = Append(@, B64Value(c)), !.pads = 0]

B64Scan(text) ==
    LET st[i \in 0..Len(text)] ==
            IF i = 0 THEN [data |-> <<>>, pads |-> 0, done |-> FALSE]
            ELSE B64Step(st[i - 1], text[i])
    IN  st[Len(text)]

\* base64.b64decode(text) with validate=False: the bytes of the groups read;
\* binascii.Error when the input ends inside a group
b64decode(text) ==
    LET scan == B64Scan(text)
        data == scan.data
        n == Len(data)
        tail == n % 4
        full == n \div 4
        word(g) == data[4 * g - 3] * 262144 + data[4 * g - 2] * 4096
                     + data[4 * g - 1] * 64 + data[4 * g]
        whole == [p \in 1..(3 * full) |->
                    (word((p + 2) \div 3) \div Pow2(8 * (2 - ((p - 1) % 3)))) % 256]
        v(i) == data[4 * full + i]
    IN  IF tail /= 0 /\ ~scan.done THEN Raise("binascii.Error")
        ELSE IF tail = 0 THEN Return(whole)
        ELSE IF tail = 2 THEN Return(whole \o <<(v(1) * 4 + v(2) \div 16) % 256>>)
        ELSE Return(whole \o <<(v(1) * 4 + v(2) \div 16) % 256,
                               ((v(2) % 16) * 16 + v(3) \div 4) % 256>>)

\* key_to_string(key)
key_to_string(k) == b64encode(k)

\* ---- the inputs explored ----
\* characters that are not of the alphabet: "!" and "*"
Str_Bang == 33
Str_Star == 42
Str_A == 65

\* texts a stored key text may have become: a foreign character inserted
\* anywhere, the end cut off, a character appended, no key character left
DamagedTexts(t) ==
    {SubSeq(t, 1, p) \o <<Str_Bang>> \o SubSeq(t, p + 1, Len(t)) : p \in 0..Len(t)}
        \cup {SubSeq(t, 1, Len(t) - k) : k \in 1..4}
        \cup {Append(t, Str_A), <<Str_Star, Str_Star, Str_Star, Str_Star>>, <<>>}

\* string_to_key(key_str)
string_to_key(key_str) == b64decode(key_str)

(***************************************************************************)
(* server.py: the handlers, each on the contents of the collections it     *)
(* reads, returning the contents it writes and the response.  Documents    *)
(* carry the fields the handlers query or copy.                            *)
(***************************************************************************)
Admin == [username |-> "admin", role |-> "admin"]
Employee(name) == [username |-> name, role |-> "employee"]

\* the callers: get_current_user resolves the token to one of these
Employees == {Employee("e1")}
Users == {Admin} \cup Employees

\* a fixed text, as the message list a detail is
Text(t) == <<Msg(t, <<>>, <<>>)>>

\* HTTPException(status_code=...) and the other ways a handler ends
Ok(body) == [status |-> 200, detail |-> <<>>, body |-> body]
HTTPException(status_code, detail) ==
    [status |-> status_code, detail |-> detail, body |-> <<>>]
\* an exception that is no HTTPException ends the request with a 500
ServerError(exc) == [status |-> 500, detail |-> Text(exc), body |-> <<>>]

\* the _id GridFS gives a stored file, and str(file_id)
ObjectId(n) == [type |-> "ObjectId", n |-> n]
str(file_id) == [type |-> "str", n |-> file_id.n]

Str_OfficeWiFi == <<79, 102, 102, 105, 99, 101, 87, 105, 70, 105>>
Str_Guest == <<71, 117, 101, 115, 116>>

\* create_admin: the default record (10.8505, 76.2711 in units of 0.0001
\* degree, 500 m in centimetres)
default_config ==
    [latitude |-> 108505, longitude |-> 762711, radius |-> 50000,
     allowed_ssid |-> Str_OfficeWiFi,
     start_time |-> HM(9, 0), end_time |-> HM(17, 0)]

\* create_admin, the part on db.geofence_config
create_admin(cfg) == IF cfg = None THEN default_config ELSE cfg

\* the documents of a collection that match a query of field values
Matching(coll, query) ==
    {i \in 1..Len(coll) : \A f \in DOMAIN query : coll[i][f] = query[f]}

\* find_one(query): the first matching document, or None
find_one(coll, query) ==
    IF Matching(coll, query) = {} THEN None
    ELSE coll[CHOOSE i \in Matching(coll, query) :
                  \A j \in Matching(coll, query) : i <= j]

\* create_wfh_request(request, current_user)
create_wfh_request(current_user, requests) ==
    IF current_user.role /= "employee"
    THEN [wfh_requests |-> requests,
          response |-> HTTPException(403, Text("Employee access only"))]
    ELSE IF find_one(requests, [employee_username |-> current_user.username,
                                status |-> "pending"]) /= None
    THEN [wfh_requests |-> requests,
          response |-> HTTPException(400, Text("You already have a pending request"))]
    ELSE [wfh_requests |->
              Append(requests, [employee_username |-> current_user.username,
                                status |-> "pending"]),
          response |-> Ok(<<>>)]

\* update_wfh_request(employee_username, action, current_user): update_one
\* changes the first pending request of the employee
update_wfh_request(employee_username, status, current_user, requests) ==
    LET pending == Matching(requests, [employee_username |-> employee_username,
                                       status |-> "pending"])
    IN  IF current_user.role /= "admin"
        THEN [wfh_requests |-> requests,
              response |-> HTTPException(403, Text("Admin access required"))]
        ELSE IF pending = {}
        THEN [wfh_requests |-> requests,
              response |-> HTTPException(404, Text("Request not found or already processed"))]
        ELSE LET i == CHOOSE i \in pending : \A j \in pending : i <= j
             IN  [wfh_requests |-> [requests EXCEPT ![i].status = status],
                  response |-> Ok(<<>>)]

\* variant: the $set leaves end_time out
update_geofence_config_keeps_end_time(new_config, current_user, cfg) ==
    IF current_user.role /= "admin"
    THEN [geofence_config |-> cfg,
          response |-> HTTPException(403, Text("Admin access required"))]
    ELSE [geofence_config |-> [new_config EXCEPT !.end_time = cfg.end_time],
          response |-> Ok(<<>>)]

\* update_geofence_config(config, current_user): $set of every field, upsert
update_geofence_config(new_config, current_user, cfg) ==
    IF current_user.role /= "admin"
    THEN [geofence_config |-> cfg,
          response |-> HTTPException(403, Text("Admin access required"))]
    ELSE [geofence_config |-> new_config, response |-> Ok(<<>>)]

\* upload_file(file, current_user), the key and the nonce as drawn
upload_file(filename, file_content, current_user, encryption_key, nonce, metadata, files) ==
    IF current_user.role /= "admin"
    THEN [file_metadata |-> metadata, fs_files |-> files,
          response |-> HTTPException(403, Text("Admin access required"))]
    ELSE LET encrypted_content == encrypt_file(file_content, encryption_key, nonce)
             file_id == ObjectId(Cardinality(files) + 1)
         IN  [file_metadata |->
                  Append(metadata, [file_id |-> str(file_id),
                                    filename |-> filename,
                                    encryption_key |-> key_to_string(encryption_key)]),
              fs_files |-> files \cup {[_id |-> file_id, filename |-> filename,
                                        content |-> encrypted_content]},
              response |-> Ok(<<>>)]

\* fs.open_download_stream(file_id) and grid_out.read(): the bucket is
\* searched for a file whose _id equals the argument
open_download_stream(files, file_id) ==
    IF \E f \in files : f._id = file_id
    THEN Return((CHOOSE f \in files : f._id = file_id).content)
    ELSE Raise("NoFile")

\* lines 353-364 and 410-420: read the stored blob, decrypt, answer.  The
\* argument is file_meta["file_id"], the string form of the id, while the
\* bucket holds the ObjectId itself: the two are compared as they are
download(file_meta, files) ==
    LET encrypted_content == open_download_stream(files, file_meta.file_id)
        k == string_to_key(file_meta.encryption_key)
    IN  IF encrypted_content.kind = "raise" THEN ServerError(encrypted_content.exc)
        ELSE IF k.kind = "raise" THEN ServerError(k.exc)
        ELSE LET decrypted_content == decrypt_file(encrypted_content.value, k.value)
             IN  IF decrypted_content.kind = "raise"
                 THEN ServerError(decrypted_content.exc)
                 ELSE Ok(decrypted_content.value)

\* the calls download makes, in order, up to the one that raises
download_steps(file_meta, files) ==
    LET encrypted_content == open_download_stream(files, file_meta.file_id)
        k == string_to_key(file_meta.encryption_key)
    IN  IF encrypted_content.kind = "raise" THEN <<"open_download_stream">>
        ELSE IF k.kind = "raise" THEN <<"open_download_stream", "string_to_key">>
        ELSE <<"open_download_stream", "string_to_key", "decrypt_file">>

\* datetime.utcnow().isoformat(), the server's clock being UTC
utcnow_isoformat(now, weekday) == IsoString(now[1], weekday)

\* the log document of lines 385-399
log_entry(req, current_user, now, weekday, validation, file_meta) ==
    [employee_username |-> current_user.username,
     file_id |-> req.file_id,
     filename |-> IF file_meta /= None THEN file_meta.filename ELSE "",
     action |-> "access",
     timestamp |-> utcnow_isoformat(now, weekday),
     location |-> [lat |-> req.latitude, lon |-> req.longitude],
     wifi_ssid |-> req.wifi_ssid,
     success |-> validation.value.allowed,
     reason |-> validation.value.reason]

\* variant: only granted requests are logged
access_file_logs_grants_only(req, current_user, now, weekday, db) ==
    LET cfg == db.geofence_config
        requests == db.wfh_requests
        metadata == db.file_metadata
        files == db.fs_files
        logs == db.access_logs
        file_meta == find_one(metadata, [file_id |-> req.file_id])
        wfh == find_one(requests, [employee_username |-> current_user.username,
                                   status |-> "approved"]) /= None
        validation == validate_access(req, cfg, wfh, now)
    IN  IF current_user.role /= "employee"
        THEN [access_logs |-> logs, decision |-> NoCall,
              steps |-> IF file_meta = None THEN <<>>
                        ELSE download_steps(file_meta, files),
              response |-> IF file_meta = None
                           THEN HTTPException(404, Text("File not found"))
                           ELSE download(file_meta, files)]
        ELSE IF validation.kind = "raise"
        THEN [access_logs |-> logs, decision |-> validation,
              steps |-> <<"validate_access">>,
              response |-> ServerError(validation.exc)]
        ELSE IF ~validation.value.allowed
        THEN [access_logs |-> logs, decision |-> validation,
              steps |-> <<"validate_access">>,
              response |-> HTTPException(403, validation.value.reason)]
        ELSE [access_logs |->
                  Append(logs, log_entry(req, current_user, now, weekday, validation,
                                         file_meta)),
              decision |-> validation,
              steps |-> <<"validate_access", "insert_one">>
                        \o (IF file_meta = None THEN <<>>
                            ELSE download_steps(file_meta, files)),
              response |-> IF file_meta = None
                           THEN HTTPException(404, Text("File not found"))
                           ELSE download(file_meta, files)]

\* variant: the file is read and decrypted before the log is written
access_file_decrypts_first(req, current_user, now, weekday, db) ==
    LET cfg == db.geofence_config
        requests == db.wfh_requests
        metadata == db.file_metadata
        files == db.fs_files
        logs == db.access_logs
        file_meta == find_one(metadata, [file_id |-> req.file_id])
        wfh == find_one(requests, [employee_username |-> current_user.username,
                                   status |-> "approved"]) /= None
        validation == validate_access(req, cfg, wfh, now)
    IN  IF current_user.role /= "employee"
        THEN [access_logs |-> logs, decision |-> NoCall,
              steps |-> IF file_meta = None THEN <<>>
                        ELSE download_steps(file_meta, files),
              response |-> IF file_meta = None
                           THEN HTTPException(404, Text("File not found"))
                           ELSE download(file_meta, files)]
        ELSE IF validation.kind = "raise"
        THEN [access_logs |-> logs, decision |-> validation,
              steps |-> <<"validate_access">>,
              response |-> ServerError(validation.exc)]
        ELSE [access_logs |->
                  Append(logs, log_entry(req, current_user, now, weekday, validation,
                                         file_meta)),
              decision |-> validation,
              steps |-> <<"validate_access">>
                        \o (IF validation.value.allowed /\ file_meta /= None
                            THEN download_steps(file_meta, files) ELSE <<>>)
                        \o <<"insert_one">>,
              response |-> IF ~validation.value.allowed
                           THEN HTTPException(403, validation.value.reason)
                           ELSE IF file_meta = None
                           THEN HTTPException(404, Text("File not found"))
                           ELSE download(file_meta, files)]

\* access_file(request, current_user), on the collections db
access_file(req, current_user, now, weekday, db) ==
    LET cfg == db.geofence_config
        requests == db.wfh_requests
        metadata == db.file_metadata
        files == db.fs_files
        logs == db.access_logs
        file_meta == find_one(metadata, [file_id |-> req.file_id])
        wfh == find_one(requests, [employee_username |-> current_user.username,
                                   status |-> "approved"]) /= None
        validation == validate_access(req, cfg, wfh, now)
    IN  IF current_user.role /= "employee"
        \* lines 346-364: no validation, no log
        THEN [access_logs |-> logs, decision |-> NoCall,
              steps |-> IF file_meta = None THEN <<>>
                        ELSE download_steps(file_meta, files),
              response |-> IF file_meta = None
                           THEN HTTPException(404, Text("File not found"))
                           ELSE download(file_meta, files)]
        ELSE IF validation.kind = "raise"
        THEN [access_logs |-> logs, decision |-> validation,
              steps |-> <<"validate_access">>,
              response |-> ServerError(validation.exc)]
        \* lines 378-420: the decision, the log, and only then the answer
        ELSE [access_logs |->
                  Append(logs, log_entry(req, current_user, now, weekday, validation,
                                         file_meta)),
              decision |-> validation,
              steps |-> <<"validate_access", "insert_one">>
                        \o (IF validation.value.allowed /\ file_meta /= None
                            THEN download_steps(file_meta, files) ELSE <<>>),
              response |-> IF ~validation.value.allowed
                           THEN HTTPException(403, validation.value.reason)
                           ELSE IF file_meta = None
                           THEN HTTPException(404, Text("File not found"))
                           ELSE download(file_meta, files)]

\* find(...).sort("timestamp", -1): a listing of the documents, the latest
\* first, documents of one timestamp in insertion order.  The timestamps of
\* the model carry the weekday for the date and the hour for the time.
sort_timestamp_desc(logs) ==
    LET Later(i, j) ==
            \/ logs[i].timestamp.weekday > logs[j].timestamp.weekday
            \/ /\ logs[i].timestamp.weekday = logs[j].timestamp.weekday
               /\ logs[i].timestamp.hour > logs[j].timestamp.hour
        Before(i, j) == Later(i, j) \/ (~Later(j, i) /\ i < j)
        rank(i) == 1 + Cardinality({j \in 1..Len(logs) : Before(j, i)})
    IN  [r \in 1..Len(logs) |-> logs[CHOOSE i \in 1..Len(logs) : rank(i) = r]]

\* variant: the entries listed are taken off the collection
get_access_logs_drains(current_user, logs) ==
    IF current_user.role /= "admin"
    THEN [access_logs |-> logs,
          response |-> HTTPException(403, Text("Admin access required"))]
    ELSE [access_logs |-> <<>>, response |-> Ok(sort_timestamp_desc(logs))]

\* get_access_logs(current_user): a find, which leaves the collection as it is
get_access_logs(current_user, logs) ==
    IF current_user.role /= "admin"
    THEN [access_logs |-> logs,
          response |-> HTTPException(403, Text("Admin access required"))]
    ELSE [access_logs |-> logs, response |-> Ok(sort_timestamp_desc(logs))]

\* db.access_logs.find({"employee_username": ...}): the entries of one
\* identity, in insertion order
logs_of(logs, employee_username) ==
    SelectSeq(logs, LAMBDA d : d.employee_username = employee_username)

\* get_employee_analytics(employee_username, current_user) on the module's
\* anomaly_detector, model.predict returning `predictions`
get_employee_analytics(employee_username, current_user, logs, detector, predictions) ==
    LET activities == logs_of(logs, employee_username)
        trained == IF Len(activities) >= 10
                   THEN train(detector, activities)
                   ELSE [self |-> detector, result |-> Return(FALSE)]
        analysis == analyze_employee_behavior(trained.self, activities, predictions)
    IN  IF current_user.role /= "admin"
        THEN [anomaly_detector |-> detector,
              response |-> HTTPException(403, Text("Admin access required"))]
        ELSE IF trained.result.kind = "raise"
        THEN [anomaly_detector |-> detector,
              response |-> ServerError(trained.result.exc)]
        ELSE IF analysis.kind = "raise"
        THEN [anomaly_detector |-> trained.self,
              response |-> ServerError(analysis.exc)]
        ELSE [anomaly_detector |-> trained.self, response |-> Ok(analysis.value)]

\* ---- the inputs explored ----
MaxWfhRequests == 2
MaxLogs == 1
MaxFiles == 1

\* action["status"] as the admin console sends it
Statuses == {"approved", "rejected"}

\* a request from the office and one from elsewhere, for the file uploaded first
AtOffice ==
    [file_id |-> str(ObjectId(1)), latitude |-> 108505, longitude |-> 762711,
     wifi_ssid |-> Str_OfficeWiFi]
Away ==
    [file_id |-> str(ObjectId(1)), latitude |-> 108565, longitude |-> 762711,
     wifi_ssid |-> Str_Guest]
AccessRequests == {AtOffice, Away}

\* a configuration the admin may put in place of the default one
NightShift == [default_config EXCEPT !.start_time = HM(22, 0), !.end_time = HM(23, 59)]
NewConfigs == {NightShift}

ServerClocks == {<<10, 30>>}
ServerWeekdays == {0}

\* the entries n granted requests of an employee leave in access_logs, the
\* first at the hour `first`, the later ones in the hours after it
GrantedLog(name, n, first) ==
    [i \in 1..n |->
        log_entry(AtOffice, Employee(name), <<first + (i % 4), 0>>, i % 5,
                  validate_access(AtOffice, default_config, FALSE,
                                  <<first + (i % 4), 0>>),
                  None)]

\* the identities whose analytics the admin asks for
AnalysedNames == {"e1", "e2"}

\* access_logs after a period of use: e1 has enough entries to train on,
\* e2 none, too few, or enough
AuditLogs ==
    {GrantedLog("e1", a, 9) \o GrantedLog("e2", b, 12) :
        a \in {MinSamples, MaxActivities}, b \in {0, MinSamples - 1, MinSamples}}

\* the upload explored: one file, one draw of the key and of the nonce
Uploads == {[filename |-> "report.txt", content |-> <<65>>]}
UploadKeys == {RandomBytes(KeyLen, 1)}
UploadNonces == {RandomBytes(GcmDefaultNonceLen, 11)}

(***************************************************************************)
(* The specifications.  Each one exercises one part of the backend and     *)
(* leaves the variables of the other parts at their idle values.           *)
(***************************************************************************)
CryptoIdle ==
    /\ file_data = <<>>
    /\ key = <<>>
    /\ encrypted_data = NoBlob
    /\ blob_state = "none"
    /\ tamper_at = -1
    /\ decrypt_key = <<>>
    /\ decrypt_result = NoCall
    /\ stored_key = <<>>
    /\ key_result = NoCall

PolicyIdle ==
    /\ request = None
    /\ config = None
    /\ wfh_approved = FALSE
    /\ clock = <<0, 0>>
    /\ validation_result = NoCall

MlIdle ==
    /\ anomaly_detector = NewDetector
    /\ ml_call = NoCall
    /\ ml_prev = NoCall

NoResponse == [op |-> "none"]

\* no access_file call is under way
NoRequest ==
    [pc |-> "none", current_user |-> None, req |-> None, wfh_approved |-> FALSE,
     config |-> None, now |-> <<0, 0>>, validation_result |-> NoCall,
     file_meta |-> None]

ServerIdle ==
    /\ started = FALSE
    /\ geofence_config = None
    /\ wfh_requests = <<>>
    /\ file_metadata = <<>>
    /\ fs_files = {}
    /\ access_logs = <<>>
    /\ response = NoResponse
    /\ inflight = NoRequest

\* ---- crypto_service.py: encrypt, store, read back, decrypt ----
CryptoInit ==
    /\ file_data \in Plaintexts
    /\ key \in generate_key
    /\ encrypted_data = NoBlob
    /\ blob_state = "none"
    /\ tamper_at = -1
    /\ decrypt_key = key
    /\ decrypt_result = NoCall
    /\ stored_key = <<>>
    /\ key_result = NoCall
    /\ PolicyIdle /\ MlIdle /\ ServerIdle

\* crypto_service.encrypt_file(file_content, encryption_key)
EncryptFile ==
    /\ blob_state = "none"
    /\ \E nonce \in FreshNonces :
          encrypted_data' = encrypt_file(file_data, key, nonce)
    /\ blob_state' = "fresh"
    /\ UNCHANGED <<file_data, key, tamper_at, decrypt_key, decrypt_result>>
    /\ UNCHANGED <<stored_key, key_result, policyVars, mlVars, serverVars>>

\* the stored blob has one bit flipped before it is read back
FlipBit ==
    /\ blob_state = "fresh"
    /\ decrypt_result = NoCall
    /\ \E i \in 1..Len(encrypted_data), b \in 0..7 :
          /\ encrypted_data' =
                [encrypted_data EXCEPT ![i] = Xor8(encrypted_data[i], Pow2(b))]
          /\ tamper_at' = i - 1
    /\ blob_state' = "tampered"
    /\ UNCHANGED <<file_data, key, decrypt_key, decrypt_result>>
    /\ UNCHANGED <<stored_key, key_result, policyVars, mlVars, serverVars>>

\* the stored blob is cut short before it is read back
Truncate ==
    /\ blob_state = "fresh"
    /\ decrypt_result = NoCall
    /\ \E n \in 0..(Len(encrypted_data) - 1) :
          encrypted_data' = SubSeq(encrypted_data, 1, n)
    /\ blob_state' = "truncated"
    /\ UNCHANGED <<file_data, key, tamper_at, decrypt_key, decrypt_result>>
    /\ UNCHANGED <<stored_key, key_result, policyVars, mlVars, serverVars>>

\* crypto_service.decrypt_file(encrypted_content, key), with any key
DecryptFile ==
    /\ blob_state /= "none"
    /\ decrypt_result = NoCall
    /\ \E k \in generate_key :
          /\ decrypt_key' = k
          /\ decrypt_result' = decrypt_file(encrypted_data, k)
    /\ UNCHANGED <<file_data, key, encrypted_data, blob_state, tamper_at>>
    /\ UNCHANGED <<stored_key, key_result, policyVars, mlVars, serverVars>>

CryptoNext == EncryptFile \/ FlipBit \/ Truncate \/ DecryptFile

CryptoSpec == CryptoInit /\ [][CryptoNext]_vars

\* ---- crypto_service.py: a key is stored as text and read back ----
KeyInit ==
    /\ key \in generate_key
    /\ stored_key = key_to_string(key)
    /\ key_result = NoCall
    /\ file_data = <<>>
    /\ encrypted_data = NoBlob
    /\ blob_state = "none"
    /\ tamper_at = -1
    /\ decrypt_key = <<>>
    /\ decrypt_result = NoCall
    /\ PolicyIdle /\ MlIdle /\ ServerIdle

\* the stored text is damaged before it is read back
DamageKeyString ==
    /\ key_result = NoCall
    /\ stored_key = key_to_string(key)
    /\ stored_key' \in DamagedTexts(stored_key)
    /\ UNCHANGED <<file_data, key, encrypted_data, blob_state, tamper_at,
                   decrypt_key, decrypt_result, key_result>>
    /\ UNCHANGED <<policyVars, mlVars, serverVars>>

\* crypto_service.string_to_key(file_meta["encryption_key"])
StringToKey ==
    /\ key_result = NoCall
    /\ key_result' = string_to_key(stored_key)
    /\ UNCHANGED <<file_data, key, encrypted_data, blob_state, tamper_at,
                   decrypt_key, decrypt_result, stored_key>>
    /\ UNCHANGED <<policyVars, mlVars, serverVars>>

KeyNext == DamageKeyString \/ StringToKey

KeySpec == KeyInit /\ [][KeyNext]_vars

\* ---- geofence.py: one evaluation of a request ----
PolicyInit ==
    /\ request \in Requests
    /\ config \in Configs
    /\ wfh_approved \in BOOLEAN
    /\ clock \in Clocks
    /\ validation_result = NoCall
    /\ CryptoIdle /\ MlIdle /\ ServerIdle

\* GeofenceValidator.validate_access(request, config, wfh_approved)
ValidateAccess ==
    /\ validation_result = NoCall
    /\ validation_result' = validate_access(request, config, wfh_approved, clock)
    /\ UNCHANGED <<request, config, wfh_approved, clock>>
    /\ UNCHANGED <<cryptoVars, mlVars, serverVars>>

PolicyNext == ValidateAccess

PolicySpec == PolicyInit /\ [][PolicyNext]_vars

\* ---- ml_service.py: calls on one detector, in any order ----
MlInit ==
    /\ anomaly_detector = NewDetector
    /\ ml_call = NoCall
    /\ ml_prev = NoCall
    /\ CryptoIdle /\ PolicyIdle /\ ServerIdle

\* what ml_prev keeps of a call
Summary(call) ==
    IF call = NoCall THEN NoCall
    ELSE [op |-> call.op, n |-> Len(call.activities),
          returned |-> call.result.kind = "return",
          is_trained_after |-> anomaly_detector.is_trained]

\* anomaly_detector.train(activities)
Train ==
    /\ \E activities \in ActivityLists :
          LET done == train(anomaly_detector, activities)
          IN  /\ anomaly_detector' = done.self
              /\ ml_call' = [op |-> "train", activities |-> activities,
                             result |-> done.result]
    /\ ml_prev' = Summary(ml_call)
    /\ UNCHANGED <<cryptoVars, policyVars, serverVars>>

\* anomaly_detector.detect_anomalies(activities)
DetectAnomalies ==
    /\ \E activities \in ActivityLists :
          \* model.predict is only reached by a trained detector
          \E predictions \in (IF anomaly_detector.is_trained
                               THEN Predictions(Len(activities)) ELSE {<<>>}) :
              ml_call' = [op |-> "detect_anomalies", activities |-> activities,
                          result |-> detect_anomalies(anomaly_detector, activities,
                                                      predictions)]
    /\ ml_prev' = Summary(ml_call)
    /\ UNCHANGED <<anomaly_detector, cryptoVars, policyVars, serverVars>>

MlNext == Train \/ DetectAnomalies

MlSpec == MlInit /\ [][MlNext]_vars

\* ---- ml_service.py: one analysis by a detector that is new or trained ----
AnalysisInit ==
    /\ anomaly_detector \in Detectors
    /\ ml_call = NoCall
    /\ ml_prev = NoCall
    /\ CryptoIdle /\ PolicyIdle /\ ServerIdle

\* anomaly_detector.analyze_employee_behavior(activities)
AnalyzeEmployeeBehavior ==
    /\ \E activities \in AnalysedLists :
          \E predictions \in (IF anomaly_detector.is_trained
                               THEN Predictions(Len(activities)) ELSE {<<>>}) :
              ml_call' = [op |-> "analyze_employee_behavior",
                          activities |-> activities,
                          predictions |-> predictions,
                          result |-> analyze_employee_behavior(anomaly_detector,
                                                               activities, predictions)]
    /\ UNCHANGED <<anomaly_detector, ml_prev, cryptoVars, policyVars, serverVars>>

AnalysisNext == AnalyzeEmployeeBehavior

AnalysisSpec == AnalysisInit /\ [][AnalysisNext]_vars

\* ---- server.py: the handlers on the database ----
ServerInit ==
    /\ ServerIdle
    /\ CryptoIdle /\ PolicyIdle /\ MlIdle

\* the collections as a handler finds them
Database ==
    [geofence_config |-> geofence_config, wfh_requests |-> wfh_requests,
     file_metadata |-> file_metadata, fs_files |-> fs_files,
     access_logs |-> access_logs]

\* what a handler call leaves in `response`; steps are the calls of the
\* access path (evaluation, log, download, decryption) in the order made
Called(op, current_user, answer, decision, steps) ==
    [op |-> op, current_user |-> current_user, status |-> answer.status,
     detail |-> answer.detail, body |-> answer.body, decision |-> decision,
     steps |-> steps]

\* the startup event
CreateAdmin ==
    /\ ~started
    /\ started' = TRUE
    /\ geofence_config' = create_admin(geofence_config)
    /\ UNCHANGED <<wfh_requests, file_metadata, fs_files, access_logs, response>>
    /\ UNCHANGED <<cryptoVars, policyVars, mlVars>>
    /\ UNCHANGED inflight

CreateWfhRequest ==
    /\ started
    /\ Len(wfh_requests) < MaxWfhRequests
    /\ \E current_user \in Users :
          LET done == create_wfh_request(current_user, wfh_requests)
          IN  /\ wfh_requests' = done.wfh_requests
              /\ response' = Called("create_wfh_request", current_user, done.response,
                                    NoCall, <<>>)
    /\ UNCHANGED <<started, geofence_config, file_metadata, fs_files, access_logs>>
    /\ UNCHANGED <<cryptoVars, policyVars, mlVars>>
    /\ UNCHANGED inflight

UpdateWfhRequest ==
    /\ started
    /\ \E current_user \in Users, employee \in Employees, status \in Statuses :
          LET done == update_wfh_request(employee.username, status, current_user,
                                         wfh_requests)
          IN  /\ wfh_requests' = done.wfh_requests
              /\ response' = Called("update_wfh_request", current_user, done.response,
                                    NoCall, <<>>)
    /\ UNCHANGED <<started, geofence_config, file_metadata, fs_files, access_logs>>
    /\ UNCHANGED <<cryptoVars, policyVars, mlVars>>
    /\ UNCHANGED inflight

UpdateGeofenceConfig ==
    /\ started
    /\ \E current_user \in Users, new_config \in NewConfigs :
          LET done == update_geofence_config(new_config, current_user, geofence_config)
          IN  /\ geofence_config' = done.geofence_config
              /\ response' = Called("update_geofence_config", current_user,
                                    done.response, NoCall, <<>>)
    /\ UNCHANGED <<started, wfh_requests, file_metadata, fs_files, access_logs>>
    /\ UNCHANGED <<cryptoVars, policyVars, mlVars>>
    /\ UNCHANGED inflight

UploadFile ==
    /\ started
    /\ Len(file_metadata) < MaxFiles
    /\ \E current_user \in Users, file \in Uploads,
          encryption_key \in UploadKeys, nonce \in UploadNonces :
          LET done == upload_file(file.filename, file.content, current_user,
                                  encryption_key, nonce, file_metadata, fs_files)
          IN  /\ file_metadata' = done.file_metadata
              /\ fs_files' = done.fs_files
              /\ response' = Called("upload_file", current_user, done.response, NoCall, <<>>)
    /\ UNCHANGED <<started, geofence_config, wfh_requests, access_logs>>
    /\ UNCHANGED <<cryptoVars, policyVars, mlVars>>
    /\ UNCHANGED inflight

AccessFile ==
    /\ started
    /\ Len(access_logs) < MaxLogs
    /\ \E current_user \in Users, req \in AccessRequests,
          now \in ServerClocks, weekday \in ServerWeekdays :
          LET done == access_file(req, current_user, now, weekday, Database)
          IN  /\ access_logs' = done.access_logs
              /\ response' = Called("access_file", current_user, done.response,
                                    done.decision, done.steps)
    /\ UNCHANGED <<started, geofence_config, wfh_requests, file_metadata, fs_files>>
    /\ UNCHANGED <<cryptoVars, policyVars, mlVars>>
    /\ UNCHANGED inflight

GetAccessLogs ==
    /\ started
    /\ \E current_user \in Users :
          LET done == get_access_logs(current_user, access_logs)
          IN  /\ access_logs' = done.access_logs
              /\ response' = Called("get_access_logs", current_user, done.response,
                                    NoCall, <<>>)
    /\ UNCHANGED <<started, geofence_config, wfh_requests, file_metadata, fs_files>>
    /\ UNCHANGED <<cryptoVars, policyVars, mlVars>>
    /\ UNCHANGED inflight

ServerNext ==
    \/ CreateAdmin
    \/ CreateWfhRequest
    \/ UpdateWfhRequest
    \/ UpdateGeofenceConfig
    \/ UploadFile
    \/ AccessFile
    \/ GetAccessLogs

ServerSpec == ServerInit /\ [][ServerNext]_vars

\* ---- server.py: access_file between its awaits, beside the admin's writes ----
\* The handlers are coroutines of one event loop: another handler runs only
\* while this one waits at an await.  Each await of the employee path
\* (lines 366, 375, 397, 401) is one step; the calls between two awaits
\* belong to the step of the await before them.  A find_one reads one
\* document and an update_one writes one document in one operation of the
\* database.
ConcurrentInit == ServerInit

\* line 345: the request of an employee arrives
AccessBegin ==
    /\ started
    /\ inflight.pc = "none"
    /\ Len(access_logs) < MaxLogs
    /\ \E current_user \in Employees, req \in AccessRequests :
          inflight' = [NoRequest EXCEPT !.pc = "find_wfh_request",
                                        !.current_user = current_user,
                                        !.req = req]
    /\ UNCHANGED <<started, geofence_config, wfh_requests, file_metadata, fs_files,
                   access_logs, response>>
    /\ UNCHANGED <<cryptoVars, policyVars, mlVars>>

\* lines 366-370: await db.wfh_requests.find_one(...)
AccessFindWfhRequest ==
    /\ inflight.pc = "find_wfh_request"
    /\ inflight' =
          [inflight EXCEPT
              !.pc = "find_config",
              !.wfh_approved =
                  find_one(wfh_requests,
                           [employee_username |-> inflight.current_user.username,
                            status |-> "approved"]) /= None]
    /\ UNCHANGED <<started, geofence_config, wfh_requests, file_metadata, fs_files,
                   access_logs, response>>
    /\ UNCHANGED <<cryptoVars, policyVars, mlVars>>

\* lines 375-382: await db.geofence_config.find_one(...), then validate_access
\* on the document read
AccessFindConfig ==
    /\ inflight.pc = "find_config"
    /\ \E now \in ServerClocks :
          LET validation == validate_access(inflight.req, geofence_config,
                                            inflight.wfh_approved, now)
          IN  IF validation.kind = "raise"
              THEN /\ inflight' = NoRequest
                   /\ response' = Called("access_file", inflight.current_user,
                                         ServerError(validation.exc), validation,
                                         <<"validate_access">>)
              ELSE /\ inflight' = [inflight EXCEPT !.pc = "find_file_meta",
                                                   !.config = geofence_config,
                                                   !.now = now,
                                                   !.validation_result = validation]
                   /\ UNCHANGED response
    /\ UNCHANGED <<started, geofence_config, wfh_requests, file_metadata, fs_files,
                   access_logs>>
    /\ UNCHANGED <<cryptoVars, policyVars, mlVars>>

\* line 397: await db.file_metadata.find_one(...)
AccessFindFileMeta ==
    /\ inflight.pc = "find_file_meta"
    /\ inflight' =
          [inflight EXCEPT
              !.pc = "insert_log",
              !.file_meta = find_one(file_metadata, [file_id |-> inflight.req.file_id])]
    /\ UNCHANGED <<started, geofence_config, wfh_requests, file_metadata, fs_files,
                   access_logs, response>>
    /\ UNCHANGED <<cryptoVars, policyVars, mlVars>>

\* lines 401-420: await db.access_logs.insert_one(log), then the answer
AccessInsertLog ==
    /\ inflight.pc = "insert_log"
    /\ \E weekday \in ServerWeekdays :
          LET validation == inflight.validation_result
              file_meta == inflight.file_meta
          IN  /\ access_logs' =
                    Append(access_logs,
                           log_entry(inflight.req, inflight.current_user, inflight.now,
                                     weekday, validation, file_meta))
              /\ response' =
                    Called("access_file", inflight.current_user,
                           IF ~validation.value.allowed
                           THEN HTTPException(403, validation.value.reason)
                           ELSE IF file_meta = None
                           THEN HTTPException(404, Text("File not found"))
                           ELSE download(file_meta, fs_files),
                           validation,
                           <<"validate_access", "insert_one">>
                           \o (IF validation.value.allowed /\ file_meta /= None
                               THEN download_steps(file_meta, fs_files) ELSE <<>>))
    /\ inflight' = NoRequest
    /\ UNCHANGED <<started, geofence_config, wfh_requests, file_metadata, fs_files>>
    /\ UNCHANGED <<cryptoVars, policyVars, mlVars>>

ConcurrentNext ==
    \/ CreateAdmin
    \/ CreateWfhRequest
    \/ UpdateWfhRequest
    \/ UpdateGeofenceConfig
    \/ UploadFile
    \/ AccessBegin
    \/ AccessFindWfhRequest
    \/ AccessFindConfig
    \/ AccessFindFileMeta
    \/ AccessInsertLog

ConcurrentSpec == ConcurrentInit /\ [][ConcurrentNext]_vars

\* ---- server.py: the analytics of the admin console on a filled audit log ----
AnalyticsInit ==
    /\ started = TRUE
    /\ geofence_config = default_config
    /\ wfh_requests = <<>>
    /\ file_metadata = <<>>
    /\ fs_files = {}
    /\ access_logs \in AuditLogs
    /\ response = NoResponse
    /\ inflight = NoRequest
    /\ CryptoIdle /\ PolicyIdle /\ MlIdle

GetEmployeeAnalytics ==
    /\ \E current_user \in Users, employee_username \in AnalysedNames :
          LET n == Len(logs_of(access_logs, employee_username))
          IN  \* model.predict is only reached by a trained detector
              \E predictions \in (IF anomaly_detector.is_trained \/ n >= MinSamples
                                   THEN Predictions(n) ELSE {<<>>}) :
                  LET done == get_employee_analytics(employee_username, current_user,
                                                     access_logs, anomaly_detector,
                                                     predictions)
                  IN  /\ anomaly_detector' = done.anomaly_detector
                      /\ response' = Called("get_employee_analytics", current_user,
                                            done.response, NoCall, <<>>)
    /\ UNCHANGED <<started, geofence_config, wfh_requests, file_metadata, fs_files,
                   access_logs, ml_call, ml_prev>>
    /\ UNCHANGED <<cryptoVars, policyVars>>
    /\ UNCHANGED inflight

AnalyticsNext == GetEmployeeAnalytics

AnalyticsSpec == AnalyticsInit /\ [][AnalyticsNext]_vars

(***************************************************************************)
(* Properties of crypto_service.py (checked under CryptoSpec)              *)
(***************************************************************************)
Decrypted == decrypt_result /= NoCall

\* C3: for every plaintext (the empty one included) and every generated key
\* k, decrypt_file(encrypt_file(p, k), k) returns exactly p.
C3_RoundTrip ==
    (blob_state = "fresh" /\ Decrypted /\ decrypt_key = key)
        => (decrypt_result.kind = "return" /\ decrypt_result.value = file_data)

C3_Witness ==
    /\ blob_state = "fresh" /\ Decrypted /\ decrypt_key = key
    /\ Len(file_data) = MaxPlainLen
    /\ decrypt_result.kind = "return"

C3_WitnessEmpty ==
    /\ blob_state = "fresh" /\ Decrypted /\ decrypt_key = key
    /\ file_data = <<>>
    /\ decrypt_result.kind = "return"

C5_TamperDetected ==
    (blob_state = "tampered" /\ Decrypted)
        => /\ decrypt_result.kind = "raise"
           /\ decrypt_result.msg = "MAC check failed"

\* a bit of the ciphertext was flipped and the right key was used
C5_Witness ==
    /\ blob_state = "tampered" /\ Decrypted
    /\ tamper_at >= 32
    /\ decrypt_key = key
    /\ decrypt_result.kind = "raise"

\* a bit of the tag was flipped
C5_WitnessTag ==
    /\ blob_state = "tampered" /\ Decrypted
    /\ tamper_at >= 16 /\ tamper_at < 32
    /\ decrypt_result.kind = "raise"

\* C6 as stated: a blob shorter than the 28-byte header is rejected with
\* MalformedInputError, an error distinct from the authentication failure,
\* before any decryption is attempted.
C6_ShortBlobMalformed ==
    (blob_state = "truncated" /\ Len(encrypted_data) < 28 /\ Decrypted)
        => /\ decrypt_result.kind = "raise"
           /\ decrypt_result.exc = "MalformedInputError"
           /\ ~decrypt_result.decrypt_attempted

(***************************************************************************)
(* Properties of geofence.py (checked under PolicySpec)                    *)
(***************************************************************************)
Evaluated == validation_result /= NoCall

AllBypassed == [location |-> Bypassed, wifi |-> Bypassed, time |-> Bypassed]

\* the three signals as validate_access is handed them
LocationSignal ==
    validate_location(Get(request, "latitude", 0), Get(request, "longitude", 0),
                      Get(config, "latitude", 0), Get(config, "longitude", 0),
                      Get(config, "radius", 10000))
NetworkSignal ==
    validate_wifi(Get(request, "wifi_ssid", <<>>), Get(config, "allowed_ssid", <<>>))
TimeSignal ==
    validate_time(Get(config, "start_time", HM(9, 0)), Get(config, "end_time", HM(17, 0)),
                  clock)

\* C1: with the override flag set, validate_access returns allowed = TRUE for
\* every request, configuration and clock time, evaluates none of the three
\* signals and reports all three as "bypassed".
C1_OverrideAbsolute ==
    (Evaluated /\ wfh_approved)
        => /\ validation_result.kind = "return"
           /\ validation_result.value.allowed = TRUE
           /\ validation_result.value.validations = AllBypassed
           /\ validation_result.evaluated = {}

\* the override granted a request all three signals of which are invalid
C1_Witness ==
    /\ Evaluated /\ wfh_approved
    /\ config = OfficeConfig
    /\ ~LocationSignal[1] /\ ~NetworkSignal[1] /\ ~TimeSignal[1]
    /\ validation_result.value.allowed

\* the override granted a request although there is no configuration record
C1_WitnessNoConfig ==
    /\ Evaluated /\ wfh_approved
    /\ config = None
    /\ validation_result.value.allowed

\* C2: without an override, the decision returned is allowed exactly when the
\* location, the network and the time signal are all valid.
C2_AllowedIffAllValid ==
    (Evaluated /\ ~wfh_approved /\ validation_result.kind = "return")
        => (validation_result.value.allowed
               <=> (LocationSignal[1] /\ NetworkSignal[1] /\ TimeSignal[1]))

\* one invalid signal (the network) was enough to deny
C2_Witness ==
    /\ Evaluated /\ ~wfh_approved /\ validation_result.kind = "return"
    /\ LocationSignal[1] /\ ~NetworkSignal[1] /\ TimeSignal[1]
    /\ ~validation_result.value.allowed

\* all three valid: allowed
C2_WitnessGranted ==
    /\ Evaluated /\ ~wfh_approved /\ validation_result.kind = "return"
    /\ LocationSignal[1] /\ NetworkSignal[1] /\ TimeSignal[1]
    /\ validation_result.value.allowed

\* C10 as stated: validate_access never raises; whatever is absent (fields of
\* the request, fields of the configuration, the configuration record itself)
\* it returns the decision computed with latitude 0, longitude 0, radius 100 m,
\* 09:00 and 17:00 in place of what is missing.
C10_AbsentInputsNeverRaise ==
    Evaluated
        => /\ validation_result.kind = "return"
           /\ ~wfh_approved
                => /\ validation_result.value.allowed
                        = (LocationSignal[1] /\ NetworkSignal[1] /\ TimeSignal[1])
                   /\ validation_result.value.validations
                        = [location |-> LocationSignal[2], wifi |-> NetworkSignal[2],
                           time |-> TimeSignal[2]]

\* what holds of the code: a configuration dict with missing fields is
\* evaluated with the defaults
DefaultsUsedForMissingFields ==
    (Evaluated /\ config /= None)
        => /\ validation_result.kind = "return"
           /\ ~wfh_approved
                => /\ validation_result.value.allowed
                        = (LocationSignal[1] /\ NetworkSignal[1] /\ TimeSignal[1])
                   /\ validation_result.value.validations
                        = [location |-> LocationSignal[2], wifi |-> NetworkSignal[2],
                           time |-> TimeSignal[2]]

\* the non-override path returned a decision
Decided == Evaluated /\ ~wfh_approved /\ validation_result.kind = "return"

\* the messages of the invalid signals, in the order location, network, time
FailingMessages ==
    (IF LocationSignal[1] THEN <<>> ELSE <<LocationSignal[2]>>)
    \o (IF NetworkSignal[1] THEN <<>> ELSE <<NetworkSignal[2]>>)
    \o (IF TimeSignal[1] THEN <<>> ELSE <<TimeSignal[2]>>)

\* the messages of the valid signals
PassingMessages ==
    (IF LocationSignal[1] THEN {LocationSignal[2]} ELSE {})
    \cup (IF NetworkSignal[1] THEN {NetworkSignal[2]} ELSE {})
    \cup (IF TimeSignal[1] THEN {TimeSignal[2]} ELSE {})

Reason == validation_result.value.reason

\* C21: without an override the reason is "Access granted" when the three
\* signals are valid; otherwise it is the messages of exactly the invalid
\* signals in the order location, network, time, with "; " between each
\* two, and no message of a valid signal is in it.
C21_ReasonListsFailingSignals ==
    Decided
        => IF LocationSignal[1] /\ NetworkSignal[1] /\ TimeSignal[1]
           THEN Reason = <<Msg("Access granted", <<>>, <<>>)>>
           ELSE /\ Len(Reason) = 2 * Len(FailingMessages) - 1
                /\ \A i \in 1..Len(FailingMessages) :
                      Reason[2 * i - 1] = FailingMessages[i]
                /\ \A i \in 1..(Len(FailingMessages) - 1) : Reason[2 * i] = Sep
                /\ \A i \in 1..Len(Reason) : Reason[i] \notin PassingMessages

\* the location and the time are invalid, the network is valid: the reason
\* is the location message, the separator, the time message
C21_Witness ==
    /\ Decided
    /\ ~LocationSignal[1] /\ NetworkSignal[1] /\ ~TimeSignal[1]
    /\ Reason = <<LocationSignal[2], Sep, TimeSignal[2]>>

\* all three invalid: three messages, two separators
C21_WitnessAllFail ==
    /\ Decided
    /\ ~LocationSignal[1] /\ ~NetworkSignal[1] /\ ~TimeSignal[1]
    /\ Len(Reason) = 5

\* the decision of a call of validate_access that returned
Decision == validation_result.value

\* C22: every decision validate_access returns carries a validations map of
\* exactly three keys, one for the location, one for the network (the key
\* is "wifi") and one for the time, each with a non-empty message; without
\* an override all three signals are evaluated and their messages reported,
\* also when an earlier signal is invalid.
C22_ThreeDiagnosticsAlways ==
    (Evaluated /\ validation_result.kind = "return")
        => /\ DOMAIN Decision.validations = {"location", "wifi", "time"}
           /\ \A k \in DOMAIN Decision.validations :
                  Decision.validations[k].text /= ""
           /\ ~wfh_approved
                => /\ validation_result.evaluated = {"location", "wifi", "time"}
                   /\ Decision.validations.location = LocationSignal[2]
                   /\ Decision.validations.wifi = NetworkSignal[2]
                   /\ Decision.validations.time = TimeSignal[2]

\* the location is invalid, and the network and the time were evaluated
\* and reported valid all the same
C22_Witness ==
    /\ Decided
    /\ ~LocationSignal[1] /\ NetworkSignal[1] /\ TimeSignal[1]
    /\ Decision.validations.wifi.text = "WiFi validated ({})"
    /\ Decision.validations.time.text = "Time validated ({})"

\* an overridden decision carries the three keys too
C22_WitnessOverride ==
    /\ Evaluated /\ wfh_approved
    /\ DOMAIN Decision.validations = {"location", "wifi", "time"}
    /\ Decision.validations.wifi = Bypassed

\* the distance and the radius of the evaluation
Distance ==
    calculate_distance(Get(request, "latitude", 0), Get(request, "longitude", 0),
                       Get(config, "latitude", 0), Get(config, "longitude", 0))
Radius == Get(config, "radius", 10000)

LocationReported == validation_result.value.validations.location.text
NetworkReported == validation_result.value.validations.wifi.text
TimeReported == validation_result.value.validations.time.text

\* C11: the location signal is valid exactly when the distance is less than
\* or equal to the radius: at distance = radius it is valid, at any greater
\* distance it is invalid and the request is denied.
C11_LocationBoundary ==
    Decided
        => /\ (LocationReported = "Location validated (distance: {:.2f}m)")
                 <=> (Distance <= Radius)
           /\ (LocationReported = "Outside allowed area (distance: {:.2f}m, max: {}m)")
                 <=> (Distance > Radius)
           /\ (Distance > Radius) => ~validation_result.value.allowed

\* a request exactly on the fence (distance = radius) has a valid location
C11_Witness ==
    /\ Decided
    /\ config = NightConfig
    /\ Distance = Radius
    /\ LocationReported = "Location validated (distance: {:.2f}m)"

\* a request just outside (9 units from a fence of 100 m) is denied
C11_WitnessOutside ==
    /\ Decided
    /\ Distance > Radius /\ Distance < Radius + 10
    /\ ~validation_result.value.allowed

\* the claimed and the configured network name of the evaluation
ClaimedName == Get(request, "wifi_ssid", <<>>)
ConfiguredName == Get(config, "allowed_ssid", <<>>)

\* the letter a character is, whatever its case (ASCII)
Caseless(c) == IF c >= 97 /\ c <= 122 THEN c - 32 ELSE c
SameIgnoringCase(a, b) ==
    /\ Len(a) = Len(b)
    /\ \A i \in 1..Len(a) : Caseless(a[i]) = Caseless(b[i])

\* C12: the network signal is valid exactly when the claimed name is
\* non-empty and equals the configured name ignoring case; an empty claimed
\* name is invalid under every configuration, an empty configured name
\* included, and is reported as "not provided".
C12_NetworkIgnoringCase ==
    Decided
        => /\ (NetworkReported = "WiFi validated ({})")
                 <=> (ClaimedName /= <<>> /\ SameIgnoringCase(ClaimedName, ConfiguredName))
           /\ (ClaimedName = <<>>) <=> (NetworkReported = "WiFi SSID not provided")
           /\ (ClaimedName = <<>>) => ~validation_result.value.allowed

\* an empty claimed name against an empty configured name: not provided
C12_Witness ==
    /\ Decided
    /\ "wifi_ssid" \in DOMAIN request
    /\ ClaimedName = <<>> /\ ConfiguredName = <<>>
    /\ NetworkReported = "WiFi SSID not provided"
    /\ ~validation_result.value.allowed

\* a name that differs from the configured one in case only is valid
C12_WitnessCase ==
    /\ Decided
    /\ ClaimedName /= ConfiguredName
    /\ NetworkReported = "WiFi validated ({})"

\* minutes since midnight of a zero-padded HH:MM string
Minutes(t) == ((t[1] - 48) * 10 + (t[2] - 48)) * 60 + (t[4] - 48) * 10 + (t[5] - 48)

WindowStart == Get(config, "start_time", HM(9, 0))
WindowEnd == Get(config, "end_time", HM(17, 0))
ClockMinutes == clock[1] * 60 + clock[2]

\* C13: the time signal is valid exactly when the clock read by the
\* evaluation lies between start_time and end_time, both included; for a
\* window whose start_time is after its end_time no clock time is valid.
C13_TimeWindowInclusive ==
    Decided
        => /\ (TimeReported = "Time validated ({})")
                 <=> /\ Minutes(WindowStart) <= ClockMinutes
                     /\ ClockMinutes <= Minutes(WindowEnd)
           /\ (Minutes(WindowStart) > Minutes(WindowEnd))
                 => /\ TimeReported /= "Time validated ({})"
                    /\ ~validation_result.value.allowed

\* the clock is at the last minute of the window: valid
C13_Witness ==
    /\ Decided
    /\ ClockMinutes = Minutes(WindowEnd)
    /\ Minutes(WindowStart) < Minutes(WindowEnd)
    /\ TimeReported = "Time validated ({})"

\* 23:30 in a window from 22:00 to 06:00: invalid
C13_WitnessOvernight ==
    /\ Decided
    /\ Minutes(WindowStart) > Minutes(WindowEnd)
    /\ ClockMinutes >= Minutes(WindowStart)
    /\ TimeReported = "Outside allowed hours (current: {}, allowed: {}-{})"

\* ---- key texts (checked under KeySpec) ----
\* the text is the base64 encoding of KeyLen bytes: 43 characters of the
\* alphabet, the last of them with its two low bits clear, and one "="
WellFormedKeyString(t) ==
    /\ Len(t) = 44
    /\ \A i \in 1..43 : IsB64Char(t[i])
    /\ B64Value(t[43]) % 4 = 0
    /\ t[44] = B64Pad

\* C15: string_to_key on a text that is not the base64 encoding of a key
\* fails with an error, and never returns a key.
C15_MalformedKeyStringFails ==
    (key_result /= NoCall /\ ~WellFormedKeyString(stored_key))
        => key_result.kind = "raise"

\* what holds of the code: the text key_to_string wrote decodes to the key
KeyStringRoundTrip ==
    (key_result /= NoCall /\ stored_key = key_to_string(key))
        => /\ WellFormedKeyString(stored_key)
           /\ key_result = Return(key)

(***************************************************************************)
(* Properties of ml_service.py (checked under MlSpec)                      *)
(***************************************************************************)
AllFalse(n) == [i \in 1..n |-> FALSE]

\* a train call on fewer than 10 entries has just been made
ShortTrainStep ==
    /\ ml_call'.op = "train"
    /\ Len(ml_call'.activities) < 10

Analysed ==
    /\ ml_call /= NoCall
    /\ ml_call.op = "analyze_employee_behavior"
    /\ ml_call.result.kind = "return"

Analysis == ml_call.result.value

\* C14: risk_level is "high" when suspicious_count / total is above 0.30,
\* "medium" when it is above 0.15 and not above 0.30, and "low" otherwise;
\* at exactly 0.30 it is "medium" and at exactly 0.15 it is "low".
C14_RiskThresholds ==
    (Analysed /\ Len(ml_call.activities) > 0)
        => LET s == Analysis.suspicious_count
               n == Analysis.total_activities
           IN  /\ n = Len(ml_call.activities)
               /\ s <= n
               /\ (Analysis.risk_level = "high") <=> (100 * s > 30 * n)
               /\ (Analysis.risk_level = "medium")
                     <=> (100 * s > 15 * n /\ 100 * s <= 30 * n)
               /\ (Analysis.risk_level = "low") <=> (100 * s <= 15 * n)

\* 3 of 10 activities flagged: exactly 0.30, "medium"
C14_Witness ==
    /\ Analysed
    /\ Analysis.total_activities = 10
    /\ Analysis.suspicious_count = 3
    /\ Analysis.risk_level = "medium"

\* 3 of 20 activities flagged: exactly 0.15, "low"
C14_WitnessLow ==
    /\ Analysed
    /\ Analysis.total_activities = 20
    /\ Analysis.suspicious_count = 3
    /\ Analysis.risk_level = "low"

\* 4 of 10 activities flagged: "high"
C14_WitnessHigh ==
    /\ Analysed
    /\ Analysis.total_activities = 10
    /\ Analysis.suspicious_count = 4
    /\ Analysis.risk_level = "high"

\* the timestamp of the entry can be parsed
Parseable(act) ==
    LET timestamp == Get(act, "timestamp", None)
    IN  /\ timestamp /= None
        /\ (timestamp.type = "datetime" \/ (timestamp.type = "str" /\ timestamp.iso))

\* C16: when the timestamp of an entry cannot be parsed, the analysis still
\* returns a result, computed from the other entries: the malformed entry is
\* left out and the batch is not aborted.
C16_MalformedEntryExcluded ==
    (/\ ml_call /= NoCall
     /\ ml_call.op = "analyze_employee_behavior"
     /\ \E i \in 1..Len(ml_call.activities) : ~Parseable(ml_call.activities[i]))
        => /\ ml_call.result.kind = "return"
           /\ ml_call.result.value.total_activities
                = Cardinality({i \in 1..Len(ml_call.activities) :
                                  Parseable(ml_call.activities[i])})

\* what holds of the code: a trained detector raises the ValueError of the
\* first malformed timestamp, an untrained one never looks at the timestamps
MalformedEntryRaisesWhenTrained ==
    (/\ ml_call /= NoCall
     /\ ml_call.op = "analyze_employee_behavior"
     /\ \E i \in 1..Len(ml_call.activities) : ~Parseable(ml_call.activities[i]))
        => IF anomaly_detector.is_trained
           THEN ml_call.result = Raise("ValueError")
           ELSE /\ ml_call.result.kind = "return"
                /\ ml_call.result.value.total_activities = Len(ml_call.activities)
                /\ ml_call.result.value.suspicious_count = 0

\* the entries of the analysed list that model.predict marked -1
AnomalousEntries ==
    {i \in 1..Len(ml_call.activities) :
        i <= Len(ml_call.predictions) /\ ml_call.predictions[i] = -1}

\* the hour of the entry's timestamp, a datetime or an ISO string, is
\* before 9 or after 17
OutsideReferenceWindow(act) ==
    /\ Parseable(act)
    /\ (act.timestamp.hour < 9 \/ act.timestamp.hour > 17)

CountNote == "Detected {} unusual access patterns"
OffHoursNote == "Off-hours access detected: {} instances"
HasNote(text) == \E j \in 1..Len(Analysis.patterns) : Analysis.patterns[j].text = text

\* C23 as stated: when suspicious_count > 0 the patterns hold the note with
\* the count of anomalies, and they hold the off-hours note whenever an
\* anomalous entry has a timestamp outside 09:00-17:00, a timestamp stored
\* as an ISO string included.
C23_OffHoursNoteForEveryTimestamp ==
    (Analysed /\ Analysis.suspicious_count > 0)
        => /\ HasNote(CountNote)
           /\ (\E i \in AnomalousEntries :
                   OutsideReferenceWindow(ml_call.activities[i]))
                 => HasNote(OffHoursNote)

\* what holds of the code: the count note is there whenever an entry is
\* flagged, the off-hours note exactly when a flagged entry has a datetime
\* object for its timestamp and that one is outside the window
OffHoursNoteForDatetimeOnly ==
    (Analysed /\ Analysis.suspicious_count > 0)
        => /\ Analysis.patterns[1]
                = Msg(CountNote, <<Cardinality(AnomalousEntries)>>, <<>>)
           /\ HasNote(OffHoursNote)
                 <=> \E i \in AnomalousEntries :
                        /\ ml_call.activities[i].timestamp.type = "datetime"
                        /\ OutsideReferenceWindow(ml_call.activities[i])

\* entries of 03:00 with ISO strings for timestamps are flagged, and the
\* patterns hold the count note alone
OffHoursStringsUnnoticed ==
    /\ Analysed /\ Analysis.suspicious_count > 0
    /\ \A i \in 1..Len(ml_call.activities) :
          /\ ml_call.activities[i].timestamp.type = "str"
          /\ OutsideReferenceWindow(ml_call.activities[i])
    /\ Len(Analysis.patterns) = 1

\* ---- server.py ----
\* the step is a call of access_file by an employee
EmployeeAccessStep ==
    /\ response'.op = "access_file"
    /\ response'.current_user.role = "employee"

LastLog == access_logs[Len(access_logs)]

\* C7: every call of access_file by an employee appends exactly one entry to
\* access_logs, whether the decision grants or denies, the entry's success
\* and reason being the decision's allowed and reason; no other step of the
\* server adds, removes or changes an entry
C7_OneAuditEntryPerDecision ==
    [][IF EmployeeAccessStep
       THEN /\ response'.decision.kind = "return"
            /\ Len(access_logs') = Len(access_logs) + 1
            /\ SubSeq(access_logs', 1, Len(access_logs)) = access_logs
            /\ LET entry == access_logs'[Len(access_logs')]
               IN  /\ entry.employee_username = response'.current_user.username
                   /\ entry.success = response'.decision.value.allowed
                   /\ entry.reason = response'.decision.value.reason
                   /\ entry.success = (response'.status /= 403)
       ELSE access_logs' = access_logs]_vars

\* a denied request of an employee has been answered 403 and is in the log
C7_Witness ==
    /\ response.op = "access_file"
    /\ response.current_user.role = "employee"
    /\ response.status = 403
    /\ access_logs /= <<>>
    /\ ~LastLog.success
    /\ Len(LastLog.reason) > 1
    /\ LastLog.reason = response.decision.value.reason

\* a granted request is in the log as well
C7_WitnessGranted ==
    /\ response.op = "access_file"
    /\ response.current_user.role = "employee"
    /\ access_logs /= <<>>
    /\ LastLog.success
    /\ response.status /= 403

\* the approved requests of an employee
ActiveGrants(username) ==
    {i \in 1..Len(wfh_requests) :
        /\ wfh_requests[i].employee_username = username
        /\ wfh_requests[i].status = "approved"}

\* C9: at any time an identity has at most one WFH request with status
\* approved
C9_AtMostOneActiveGrant ==
    \A e \in Employees : Cardinality(ActiveGrants(e.username)) <= 1

\* access_file has evaluated the request of an employee
EmployeeDecided ==
    /\ response.op = "access_file"
    /\ response.current_user.role = "employee"
    /\ response.decision.kind = "return"

Allowed == response.decision.value.allowed

\* the calls that fetch and decrypt the file
DownloadCalls == {"open_download_stream", "string_to_key", "decrypt_file"}

\* C18 as stated: the request is evaluated, the file is decrypted when the
\* decision allows, and the audit entry is appended last; nothing is fetched
\* or decrypted for a denied request.
C18_Original ==
    EmployeeDecided
        => /\ response.steps[1] = "validate_access"
           /\ response.steps[Len(response.steps)] = "insert_one"
           /\ ~Allowed => \A i \in 1..Len(response.steps) :
                              response.steps[i] \notin DownloadCalls

\* C18, amended: the request is evaluated, then the audit entry is appended,
\* and only after that, and only when the decision allows, the file is
\* fetched and decrypted; nothing is fetched or decrypted for a denied
\* request.
C18_EvaluateLogThenDecrypt ==
    EmployeeDecided
        => /\ Len(response.steps) >= 2
           /\ response.steps[1] = "validate_access"
           /\ response.steps[2] = "insert_one"
           /\ \A i \in 3..Len(response.steps) : response.steps[i] \in DownloadCalls
           /\ ~Allowed => Len(response.steps) = 2

\* an allowed request for a stored file: the log was written before the
\* file was asked for
C18_Witness ==
    /\ EmployeeDecided
    /\ Allowed
    /\ access_logs /= <<>>
    /\ LastLog.success
    /\ Len(response.steps) > 2
    /\ response.steps[3] = "open_download_stream"

\* a denied request for a stored file: evaluated and logged, nothing else
C18_WitnessDenied ==
    /\ EmployeeDecided
    /\ ~Allowed
    /\ file_metadata /= <<>>
    /\ response.steps = <<"validate_access", "insert_one">>

\* what holds of the code: open_download_stream is asked for the string
\* form of an id the bucket holds as ObjectId, finds nothing, and the
\* request ends before decrypt_file
DownloadEndsInNoFile ==
    (response.op = "access_file" /\ response.steps /= <<>>)
        => /\ \A i \in 1..Len(response.steps) : response.steps[i] /= "decrypt_file"
           /\ response.status /= 200

C19_WitnessConfig ==
    /\ access_logs /= <<>>
    /\ response.op = "update_geofence_config"
    /\ response.status = 200


\* the configurations written whole: the record of create_admin and the
\* records the admin sends
WholeConfigs == {default_config} \cup NewConfigs

\* the access_file call under way has read the configuration
ConfigRead == inflight.pc \in {"find_file_meta", "insert_log"}

\* C20: a policy evaluation beside a configuration update sees the whole
\* old configuration or the whole new one: the document validate_access
\* was given is one of the configurations written whole, never a record
\* with fields of two of them, and the decision is the one of that document.
C20_WholeConfigurationSeen ==
    ConfigRead
        => /\ inflight.config \in WholeConfigs
           /\ inflight.validation_result =
                  validate_access(inflight.req, inflight.config,
                                  inflight.wfh_approved, inflight.now)

\* the call evaluated with the old configuration and the admin replaced it
\* before the call ended
C20_Witness ==
    /\ ConfigRead
    /\ inflight.config = default_config
    /\ geofence_config \in NewConfigs
    /\ response.op = "update_geofence_config"
    /\ response.status = 200

\* the admin replaced the configuration while the call waited for its WFH
\* lookup, and the call evaluated with the new one
C20_WitnessNew ==
    /\ ConfigRead
    /\ inflight.config \in NewConfigs
    /\ ~inflight.validation_result.value.allowed


\* ---- server.py: analytics (checked under AnalyticsSpec) ----
\* get_employee_analytics has answered with an analysis
AnalyticsAnswered ==
    /\ response.op = "get_employee_analytics"
    /\ response.status = 200

\* C17: an analysis never depends on a model fitted in an earlier call or on
\* another identity's entries: the analysis of an identity with fewer than
\* 10 entries reports suspicious_count 0 and risk_level "low", whatever
\* analyses ran before.
C17_AnalysisStartsUntrained ==
    (AnalyticsAnswered /\ response.body.total_activities < 10)
        => /\ response.body.suspicious_count = 0
           /\ response.body.risk_level = "low"
           /\ response.body.patterns = <<>>

\* what holds of the code: the module's detector, once trained by the
\* analysis of one identity, stays trained for every later analysis
DetectorStaysTrained ==
    [][anomaly_detector.is_trained => anomaly_detector'.is_trained]_vars

====
